---- MODULE Spec2Model ----
(***************************************************************************)
(* State-machine model of the sandbox execution engine:                    *)
(*   - the VM supervisor      (vm_manager/qemu_launcher.py, QEMULauncher)  *)
(*   - the in-guest agent     (vm_images/agent/agent.py, SandboxAgent)     *)
(*   - one analyze() run with its three collectors (agent.py)              *)
(* Each part has its own specification; the variables of the other parts   *)
(* stay at their initial values under it.                                  *)
(***************************************************************************)
EXTENDS Integers, Sequences, FiniteSets, TLC

VARIABLES
    processes,   \* QEMULauncher._processes: VM name -> index of its child in children
    children,    \* every QEMU child this launcher spawned: [name, alive, created]
    files,       \* socket files on disk in sockets_dir: <<VM name, kind>>
    lpc,         \* where the launcher's caller is: idle, in launch's wait loop, in stop's wait
    lastOp,      \* the call that returned in the last step (none if the step was no return)
    agentMode,   \* SandboxAgent transport chosen by main(): "virtio" or "socket"
    agentRoot,   \* whether the agent process runs as root (file permissions do not bind it)
    conn,        \* per connection: handler position, unread lines, command in hand, responses
    fs,          \* the guest's files: path -> [exists, data (bytes), mode (owner permissions)]
    written,     \* path -> the bytes of the last successful write_file not overwritten since
    lastReq,     \* the request line handled in the last step
    lastResp,    \* its response
    apc,         \* analyze(): index in AnalyzeSteps of the main thread's next step
    target,      \* the analysed process: none, running, exited, killed, spawn_failed
    coll,        \* per collector: started, running flag, thread position, tool process, tool_ok
    events,      \* per collector: its events list
    report,      \* the AnalysisResult analyze returns
    atrace,      \* what the main thread of analyze has done so far, in order
    evAtKill,    \* the events lists at the moment the target was killed on timeout
    thresholds,  \* RuleEngine.patterns['verdict_thresholds']: level -> configured value
    scEvents,    \* ThreatScorer.events
    total_score, \* ThreatScorer.total_score
    verdictOut,  \* what DynamicAnalyzer.run returns: verdict, threat_score, mitre_techniques
    hwConfig,    \* HardwareConfig of a HardwareSpoofer: mac_vendor, custom_mac
    macOut,      \* what generate_mac_address returned ("" before the call)
    smProfiles,  \* the module-level SMBIOS_PROFILES table: name -> SMBIOSProfile object
    smSpoofers,  \* the SMBIOSSpoofer objects made so far: each holds a reference into the table
    smArgs,      \* the last get_qemu_args call: which spoofer, the argument list returned
    captured,    \* what communicate() returned: the target's stdout and stderr bytes
    outFields,   \* the stdout and stderr fields of the AnalysisResult built from them
    qstop,       \* the graceful stop in progress: position, pending exception, kill issued
    qreg,        \* the VM's name is a key of _processes
    qsock,       \* the socket object of _send_qmp_command: "none", "open", "closed"
    qlog,        \* what the client did on the monitor connection, in order
    qemu,        \* the QEMU child: alive, its monitor connection, its guest
    pstate,      \* one collector object and its reader thread: kind, flag, tool, position
    ppipe,       \* the lines the tool has written that the thread has not read yet
    pevents,     \* the collector's event list
    plock,       \* who holds the collector's _lock: "free", "reader", "owner"
    psnaps,      \* the lists get_events has returned, in call order
    botPAdmins,  \* PRIVATE_ADMINS, the same list object as USER_DATA["privat_admin"]
    botAdmins,   \* ADMINS, the same list object as USER_DATA["admin"]
    botAllowed,  \* ALLOWED_USERS, a list of its own
    botGroups,   \* ALLOWED_GROUPS, the same list object as USER_DATA["allowed_groups"]
    botFiles,    \* the stored files of each folder under downloads/
    botLast,     \* the last handler run: who called, in which chat, what it did
    dbRows,      \* the rows of table analyses, in insertion order
    dbClock,     \* CURRENT_TIMESTAMP, in whole seconds
    dbFresh,     \* per hash: the result of the last run on it, when that run was not cached and was saved
    dbLast,      \* the last DynamicAnalyzer.run: its arguments, what it did and returned
    sbPc,        \* where SandboxRunner.run stands
    sbRun,       \* the run in progress: file type, use_tracer, what it started and how it ends
    sbServer,    \* the LogServer of the run: flag, listening socket, accept thread, events
    sbTempFiles, \* _temp_files of the two tracers
    sbTmp,       \* the files under the temp directory: socket files and traced copies
    sbRuns       \* runs finished so far

launcherVars == <<processes, children, files, lpc, lastOp>>

agentVars == <<agentMode, agentRoot, conn, fs, written, lastReq, lastResp>>

analyzeVars == <<apc, target, coll, events, report, atrace, evAtKill>>

scorerVars == <<thresholds, scEvents, total_score, verdictOut>>

macVars == <<hwConfig, macOut>>

smbiosVars == <<smProfiles, smSpoofers, smArgs>>

outputVars == <<captured, outFields>>

qmpVars == <<qstop, qreg, qsock, qlog, qemu>>

pipeVars == <<pstate, ppipe, pevents, plock, psnaps>>

botVars == <<botPAdmins, botAdmins, botAllowed, botGroups, botFiles, botLast>>

cacheVars == <<dbRows, dbClock, dbFresh, dbLast>>

sandboxVars == <<sbPc, sbRun, sbServer, sbTempFiles, sbTmp, sbRuns>>

notLauncher == <<agentVars, analyzeVars, scorerVars, macVars, smbiosVars, outputVars, qmpVars, pipeVars, botVars, cacheVars, sandboxVars>>

notAgent == <<launcherVars, analyzeVars, scorerVars, macVars, smbiosVars, outputVars, qmpVars, pipeVars, botVars, cacheVars, sandboxVars>>

notAnalyze == <<launcherVars, agentVars, scorerVars, macVars, smbiosVars, outputVars, qmpVars, pipeVars, botVars, cacheVars, sandboxVars>>

notScorer == <<launcherVars, agentVars, analyzeVars, macVars, smbiosVars, outputVars, qmpVars, pipeVars, botVars, cacheVars, sandboxVars>>

notMac == <<launcherVars, agentVars, analyzeVars, scorerVars, smbiosVars, outputVars, qmpVars, pipeVars, botVars, cacheVars, sandboxVars>>

notSmbios == <<launcherVars, agentVars, analyzeVars, scorerVars, macVars, outputVars, qmpVars, pipeVars, botVars, cacheVars, sandboxVars>>

notOutput == <<launcherVars, agentVars, analyzeVars, scorerVars, macVars, smbiosVars, qmpVars, pipeVars, botVars, cacheVars, sandboxVars>>

notQmp == <<launcherVars, agentVars, analyzeVars, scorerVars, macVars, smbiosVars, outputVars, pipeVars, botVars, cacheVars, sandboxVars>>

notPipe == <<launcherVars, agentVars, analyzeVars, scorerVars, macVars, smbiosVars, outputVars, qmpVars, botVars, cacheVars, sandboxVars>>

notBot == <<launcherVars, agentVars, analyzeVars, scorerVars, macVars, smbiosVars, outputVars, qmpVars, pipeVars, cacheVars, sandboxVars>>

notCache == <<launcherVars, agentVars, analyzeVars, scorerVars, macVars, smbiosVars, outputVars, qmpVars, pipeVars, botVars, sandboxVars>>

notSandbox == <<launcherVars, agentVars, analyzeVars, scorerVars, macVars, smbiosVars, outputVars, qmpVars, pipeVars, botVars, cacheVars>>

vars == <<processes, children, files, lpc, lastOp,
          agentMode, agentRoot, conn, fs, written, lastReq, lastResp,
          apc, target, coll, events, report, atrace, evAtKill,
          thresholds, scEvents, total_score, verdictOut,
          hwConfig, macOut,
          smProfiles, smSpoofers, smArgs,
          captured, outFields,
          qstop, qreg, qsock, qlog, qemu,
          pstate, ppipe, pevents, plock, psnaps,
          botPAdmins, botAdmins, botAllowed, botGroups, botFiles, botLast,
          dbRows, dbClock, dbFresh, dbLast,
          sbPc, sbRun, sbServer, sbTempFiles, sbTmp, sbRuns>>

-----------------------------------------------------------------------------
(* Bounds *)

\* how many QEMU children one behaviour may spawn
MaxChildren == 2

\* iterations of launch's wait loop before boot_timeout expires
\* (boot_timeout / 0.1 s sleep)
BootTicks == 2

VMNames == {"vmA", "vmB"}

\* connections the agent may see in one behaviour
MaxClients == 2

\* request lines sent to the agent in one behaviour, over all connections
MaxLines == 3

\* lines one collector's tool emits during one analyze run
MaxEvents == 2

\* events added to one ThreatScorer
MaxScored == 3

\* SMBIOSSpoofer objects constructed in one behaviour
MaxSpoofers == 2

\* asynchronous events QEMU emits on one monitor connection
MaxQmpEvents == 1

\* analysis tasks the guest agent is given while the VM runs
MaxTasks == 2

\* lines a collector's tool writes in one run
MaxToolLines == 3

\* get_events calls on one collector
MaxSnaps == 2

\* entries of each list of the users file the bot starts from
MaxListed == 2

\* files kept in one folder of the bot
MaxStored == 1

\* rows the analyses table can hold
MaxRows == 3

\* seconds the clock of the database can advance
MaxSeconds == 1

\* events the traced target sends to the log server in one run
MaxTraced == 2

\* runs of one SandboxRunner
MaxRuns == 2

-----------------------------------------------------------------------------
(* VM supervisor *)

\* the order in which the command line names the three sockets; QEMU binds
\* them in this order while it starts
SocketKinds == <<"monitor", "serial", "agent">>

get_socket_paths(name) == {<<name, "monitor">>, <<name, "serial">>, <<name, "agent">>}

NoOp == [op |-> "none", name |-> "-", result |-> "-", child |-> 0,
         force |-> FALSE, registered |-> FALSE]

Ret(op, name, result, child, force, registered) ==
    [op |-> op, name |-> name, result |-> result, child |-> child,
     force |-> force, registered |-> registered]

Idle == [pc |-> "idle", name |-> "-", child |-> 0, ticks |-> 0]

\* a version of stop's first test that lets every name through
in_processes_any(vm_name) == TRUE

in_processes(vm_name) == vm_name \in DOMAIN processes

\* self._processes[config.name] = qemu_proc
register(procs, name, c) ==
    [x \in (DOMAIN procs) \cup {name} |-> IF x = name THEN c ELSE procs[x]]

\* del self._processes[vm_name]
unregister(procs, name) == [x \in (DOMAIN procs) \ {name} |-> procs[x]]

\* process.kill() (followed, in stop, by process.wait()): the child is gone
kill(chs, c) == [chs EXCEPT ![c].alive = FALSE]

\* launch's "clean up old sockets" loop
launch_cleanup(name, disk) == disk \ get_socket_paths(name)

\* a version of stop's cleanup that unlinks only the two paths the
\* QEMUProcess record stores (monitor_socket, serial_socket)
stop_cleanup_stored(name, disk) == disk \ {<<name, "monitor">>, <<name, "serial">>}

\* stop's "clean up sockets" loop
stop_cleanup(name, disk) == disk \ get_socket_paths(name)

LauncherInit ==
    /\ processes = [x \in {} |-> 0]
    /\ children = <<>>
    /\ files = {}
    /\ lpc = Idle
    /\ lastOp = NoOp

\* launch, refused before anything is spawned: the QEMU binary or the image
\* is missing
LaunchRejected(n) ==
    /\ UNCHANGED notLauncher
    /\ lpc.pc = "idle"
    /\ \E r \in {"RuntimeError", "FileNotFoundError"} :
          lastOp' = Ret("launch", n, r, 0, FALSE, n \in DOMAIN processes)
    /\ UNCHANGED <<processes, children, files, lpc>>

\* launch up to the start of its wait loop: old sockets unlinked, child spawned
LaunchSpawn(n) ==
    /\ UNCHANGED notLauncher
    /\ lpc.pc = "idle"
    /\ Len(children) < MaxChildren
    /\ files' = launch_cleanup(n, files)
    /\ children' = Append(children, [name |-> n, alive |-> TRUE, created |-> 0])
    /\ lpc' = [pc |-> "boot", name |-> n, child |-> Len(children) + 1, ticks |-> 0]
    /\ lastOp' = NoOp
    /\ UNCHANGED processes

\* one evaluation of the wait loop's condition and body, or its else branch
LaunchPoll ==
    /\ UNCHANGED notLauncher
    /\ lpc.pc = "boot"
    /\ LET n == lpc.name
           c == lpc.child
       IN IF lpc.ticks < BootTicks
          THEN IF <<n, "monitor">> \in files
               THEN /\ processes' = register(processes, n, c)
                    /\ lpc' = Idle
                    /\ lastOp' = Ret("launch", n, "ok", c, FALSE, n \in DOMAIN processes)
                    /\ UNCHANGED <<children, files>>
               ELSE IF ~ children[c].alive
               THEN /\ lpc' = Idle
                    /\ lastOp' = Ret("launch", n, "RuntimeError", c, FALSE,
                                     n \in DOMAIN processes)
                    /\ UNCHANGED <<processes, children, files>>
               ELSE /\ lpc' = [lpc EXCEPT !.ticks = @ + 1]
                    /\ lastOp' = NoOp
                    /\ UNCHANGED <<processes, children, files>>
          ELSE /\ children' = kill(children, c)
               /\ lpc' = Idle
               /\ lastOp' = Ret("launch", n, "TimeoutError", c, FALSE,
                                n \in DOMAIN processes)
               /\ UNCHANGED <<processes, files>>

\* a running QEMU binds its next socket
ChildCreateSocket(c) ==
    /\ UNCHANGED notLauncher
    /\ c \in 1..Len(children)
    /\ children[c].alive
    /\ children[c].created < 3
    /\ files' = files \cup {<<children[c].name, SocketKinds[children[c].created + 1]>>}
    /\ children' = [children EXCEPT ![c].created = @ + 1]
    /\ lastOp' = NoOp
    /\ UNCHANGED <<processes, lpc>>

\* a running QEMU exits on its own; a clean exit unlinks the sockets it bound
ChildExit(c) ==
    /\ UNCHANGED notLauncher
    /\ c \in 1..Len(children)
    /\ children[c].alive
    /\ children' = kill(children, c)
    /\ \E clean \in BOOLEAN :
          files' = IF clean
                   THEN files \ {<<children[c].name, SocketKinds[i]>> :
                                    i \in 1..children[c].created}
                   ELSE files
    /\ lastOp' = NoOp
    /\ UNCHANGED <<processes, lpc>>

\* what _send_qmp_command can do in stop's graceful path: connect fails when
\* the monitor socket file is gone; otherwise it returns or raises
QmpOutcomes(n) == IF <<n, "monitor">> \in files THEN {"ok", "error"} ELSE {"error"}

\* the end of stop: the child is dead and reaped, the entry deleted, the
\* sockets unlinked
StopFinish(n, force) ==
    /\ children' = kill(children, processes[n])
    /\ processes' = unregister(processes, n)
    /\ files' = stop_cleanup(n, files)
    /\ lpc' = Idle
    /\ lastOp' = Ret("stop", n, "ok", processes[n], force, TRUE)

Stop(n, force) ==
    /\ UNCHANGED notLauncher
    /\ lpc.pc = "idle"
    /\ IF ~ in_processes(n)
       THEN /\ lastOp' = Ret("stop", n, "ok", 0, force, FALSE)
            /\ UNCHANGED <<processes, children, files, lpc>>
       ELSE IF n \notin DOMAIN processes
       THEN \* proc = self._processes[vm_name] on a missing key
            /\ lastOp' = Ret("stop", n, "KeyError", 0, force, FALSE)
            /\ UNCHANGED <<processes, children, files, lpc>>
       ELSE IF force
       THEN StopFinish(n, TRUE)
       ELSE \E q \in QmpOutcomes(n) :
               IF q = "error"
               THEN StopFinish(n, FALSE)
               ELSE /\ lpc' = [pc |-> "stop_wait", name |-> n,
                               child |-> processes[n], ticks |-> 0]
                    /\ lastOp' = NoOp
                    /\ UNCHANGED <<processes, children, files>>

\* proc.process.wait(timeout=10) ends: the child exited, or the wait timed
\* out and the child is killed
StopWait ==
    /\ UNCHANGED notLauncher
    /\ lpc.pc = "stop_wait"
    /\ StopFinish(lpc.name, FALSE)

RECURSIVE StopEach(_, _)
\* stop(name, force=True) for every name of the set, on the state st
StopEach(names, st) ==
    IF names = {} THEN st
    ELSE LET n == CHOOSE x \in names : TRUE
         IN StopEach(names \ {n},
                     [processes |-> unregister(st.processes, n),
                      children |-> kill(st.children, st.processes[n]),
                      files |-> stop_cleanup(n, st.files)])

StopAll ==
    /\ UNCHANGED notLauncher
    /\ lpc.pc = "idle"
    /\ LET st == StopEach(DOMAIN processes,
                          [processes |-> processes, children |-> children,
                           files |-> files])
       IN /\ processes' = st.processes
          /\ children' = st.children
          /\ files' = st.files
    /\ lastOp' = Ret("stop_all", "-", "ok", 0, TRUE, FALSE)
    /\ UNCHANGED lpc

\* QEMUProcess.is_running: self.process.poll() is None
poll_is_none(c) == children[c].alive

\* a version of is_running that only looks the name up
is_running_registered(vm_name) == vm_name \in DOMAIN processes

\* QEMULauncher.is_running: proc is not None and proc.is_running()
is_running(vm_name) ==
    vm_name \in DOMAIN processes /\ poll_is_none(processes[vm_name])

\* a call of is_running(n) between two other calls of the launcher
IsRunning(n) ==
    /\ UNCHANGED notLauncher
    /\ lpc.pc = "idle"
    /\ lastOp' = Ret("is_running", n, IF is_running(n) THEN "True" ELSE "False",
                     IF n \in DOMAIN processes THEN processes[n] ELSE 0,
                     FALSE, n \in DOMAIN processes)
    /\ UNCHANGED <<processes, children, files, lpc>>

-----------------------------------------------------------------------------
(* In-guest agent: transport loops and handle_command *)

Clients == 1..MaxClients

Paths == {"/tmp/a", "/tmp/b"}

\* owner permissions of the file modes 0o644 (write_file's default), 0o755
\* (_make_executable) and 0o000
Mode644 == {"r", "w"}
Mode755 == {"r", "w", "x"}
Mode000 == {}

HexLower == <<"0", "1", "2", "3", "4", "5", "6", "7", "8", "9",
              "a", "b", "c", "d", "e", "f">>
HexUpper == <<"0", "1", "2", "3", "4", "5", "6", "7", "8", "9",
              "A", "B", "C", "D", "E", "F">>

IsHexDigit(ch) == \E i \in 1..16 : HexLower[i] = ch \/ HexUpper[i] = ch

HexVal(ch) == (CHOOSE i \in 1..16 : HexLower[i] = ch \/ HexUpper[i] = ch) - 1

RECURSIVE fromhex(_)
\* bytes.fromhex(data) on a string given as its characters: whitespace between
\* bytes is skipped, each byte is two adjacent hex digits of either case,
\* anything else raises ValueError (ok = FALSE)
fromhex(str) ==
    IF str = <<>> THEN [ok |-> TRUE, bytes |-> <<>>]
    ELSE IF Head(str) = " " THEN fromhex(Tail(str))
    ELSE IF Len(str) >= 2 /\ IsHexDigit(str[1]) /\ IsHexDigit(str[2])
    THEN LET r == fromhex(Tail(Tail(str)))
         IN IF r.ok
            THEN [ok |-> TRUE,
                  bytes |-> <<16 * HexVal(str[1]) + HexVal(str[2])>> \o r.bytes]
            ELSE r
    ELSE [ok |-> FALSE, bytes |-> <<>>]

RECURSIVE hex(_)
\* data.hex(): two lower-case digits per byte
hex(b) ==
    IF b = <<>> THEN <<>>
    ELSE <<HexLower[(Head(b) \div 16) + 1], HexLower[(Head(b) % 16) + 1]>>
         \o hex(Tail(b))

NoFile == [exists |-> FALSE, data |-> <<>>, mode |-> {}]

NoLine == [kind |-> "none", path |-> "-", data |-> <<>>, mode |-> {}]

Resp(success, error, data) == [success |-> success, error |-> error, data |-> data]

NoResp == Resp(FALSE, "-", <<>>)

NotWritten == [set |-> FALSE, bytes |-> <<>>]

\* open(path, 'rb') succeeds
can_read(f, root) == f.exists /\ (root \/ "r" \in f.mode)

\* open(path, 'wb') succeeds: a new file, or one the agent may write
can_write(f, root) == ~ f.exists \/ root \/ "w" \in f.mode

\* a version of the write that opens the file for appending
write_append(fsys, path, bytes, mode) ==
    [fsys EXCEPT ![path] =
        [exists |-> TRUE, data |-> fsys[path].data \o bytes, mode |-> mode]]

\* with open(path, 'wb') as f: f.write(file_data); os.chmod(path, mode)
write_bytes(fsys, path, bytes, mode) ==
    [fsys EXCEPT ![path] = [exists |-> TRUE, data |-> bytes, mode |-> mode]]

\* the outcomes of SandboxAgent.analyze as handle_command sees them: the
\* report's success/error, and the file made executable or left alone
analyze_outcomes(fsys, path) ==
    {[resp |-> r, fs |-> f] :
        r \in {Resp(TRUE, "none", <<>>), Resp(FALSE, "Timeout", <<>>),
               Resp(FALSE, "exception text", <<>>)},
        f \in {fsys, [fsys EXCEPT ![path].mode = Mode755]}}

\* the outcomes of the execute verb: the shell command ran, timed out or
\* could not be run; a command that ran may have removed a file
execute_outcomes(fsys) ==
    {[resp |-> Resp(TRUE, "none", <<>>), fs |-> fsys],
     [resp |-> Resp(FALSE, "Timeout", <<>>), fs |-> fsys],
     [resp |-> Resp(FALSE, "exception text", <<>>), fs |-> fsys]}
    \cup {[resp |-> Resp(TRUE, "none", <<>>), fs |-> [fsys EXCEPT ![p] = NoFile]] :
             p \in {q \in Paths : fsys[q].exists}}

\* SandboxAgent.handle_command on a parsed JSON object: the set of
\* (response, file system afterwards) it can produce
handle_command(cmd, fsys, root) ==
    CASE cmd.kind \in {"ping", "status"} ->
            {[resp |-> Resp(TRUE, "none", <<>>), fs |-> fsys]}
      [] cmd.kind = "analyze" ->
            IF cmd.path = "-" \/ ~ fsys[cmd.path].exists
            THEN {[resp |-> Resp(FALSE, "File not found", <<>>), fs |-> fsys]}
            ELSE analyze_outcomes(fsys, cmd.path)
      [] cmd.kind = "execute" -> execute_outcomes(fsys)
      [] cmd.kind = "write_file" ->
            LET d == fromhex(cmd.data)
            IN IF ~ d.ok
               THEN {[resp |-> Resp(FALSE, "non-hexadecimal number found", <<>>),
                      fs |-> fsys]}
               ELSE IF ~ can_write(fsys[cmd.path], root)
               THEN {[resp |-> Resp(FALSE, "Permission denied", <<>>), fs |-> fsys]}
               ELSE {[resp |-> Resp(TRUE, "none", <<>>),
                      fs |-> write_bytes(fsys, cmd.path, d.bytes, cmd.mode)]}
      [] cmd.kind = "read_file" ->
            IF ~ fsys[cmd.path].exists
            THEN {[resp |-> Resp(FALSE, "No such file or directory", <<>>), fs |-> fsys]}
            ELSE IF ~ can_read(fsys[cmd.path], root)
            THEN {[resp |-> Resp(FALSE, "Permission denied", <<>>), fs |-> fsys]}
            ELSE {[resp |-> Resp(TRUE, "none", hex(fsys[cmd.path].data)), fs |-> fsys]}
      [] OTHER ->
            {[resp |-> Resp(FALSE, "Unknown command", <<>>), fs |-> fsys]}

\* json.loads(line.decode()) and the first use of the result
parse(line) ==
    CASE line.kind = "malformed" -> "JSONDecodeError"
      [] line.kind = "nonobject" -> "AttributeError"
      [] OTHER -> "object"

\* the bytes a later read_file of each path is to return
written_after(cmd, r) ==
    [p \in Paths |->
        IF cmd.kind = "write_file" /\ cmd.path = p
        THEN IF r.resp.success
             THEN [set |-> TRUE, bytes |-> fromhex(cmd.data).bytes]
             ELSE NotWritten
        ELSE IF r.fs[p].exists # fs[p].exists \/ r.fs[p].data # fs[p].data
        THEN NotWritten
        ELSE written[p]]

FileLine(kind, path, data, mode) ==
    [kind |-> kind, path |-> path, data |-> data, mode |-> mode]

\* the request lines a client sends in the transport model
AgentLines ==
    {FileLine(k, "-", <<>>, {}) :
        k \in {"ping", "unknown", "malformed", "nonobject", "execute", "analyze"}}
    \cup {FileLine("analyze", "/tmp/a", <<>>, {}),
          FileLine("read_file", "/tmp/a", <<>>, {}),
          FileLine("write_file", "/tmp/a", <<"0", "a">>, Mode644)}

NewConn == [pc |-> "new", inbox |-> <<>>, cur |-> NoLine, out |-> <<>>, seen |-> 0]

AgentQuiet ==
    /\ agentMode = "virtio"
    /\ agentRoot = TRUE
    /\ conn = [c \in Clients |-> NewConn]
    /\ fs = [p \in Paths |-> NoFile]
    /\ written = [p \in Paths |-> NotWritten]
    /\ lastReq = NoLine
    /\ lastResp = NoResp

\* main() picks the transport; in virtio mode the one port is opened by the
\* main loop itself
AgentInit ==
    /\ agentMode \in {"virtio", "socket"}
    /\ agentRoot \in BOOLEAN
    /\ conn = [c \in Clients |->
                 IF agentMode = "virtio" /\ c = 1
                 THEN [NewConn EXCEPT !.pc = "recv"] ELSE NewConn]
    /\ fs = [p \in Paths |-> NoFile]
    /\ written = [p \in Paths |-> NotWritten]
    /\ lastReq = NoLine
    /\ lastResp = NoResp

RECURSIVE LinesSent(_)
LinesSent(k) ==
    IF k = 0 THEN 0 ELSE conn[k].seen + Len(conn[k].inbox) + LinesSent(k - 1)

\* run_socket: accept() returns and a handler thread is started for the client
ClientConnect(c) ==
    /\ UNCHANGED notAgent
    /\ agentMode = "socket"
    /\ conn[c].pc = "new"
    /\ conn' = [conn EXCEPT ![c].pc = "recv"]
    /\ UNCHANGED <<agentMode, agentRoot, fs, written, lastReq, lastResp>>

\* a client writes one newline-terminated line
ClientSend(c, line) ==
    /\ UNCHANGED notAgent
    /\ conn[c].pc \in {"recv", "handling"}
    /\ LinesSent(MaxClients) < MaxLines
    /\ conn' = [conn EXCEPT ![c].inbox = Append(@, line)]
    /\ UNCHANGED <<agentMode, agentRoot, fs, written, lastReq, lastResp>>

\* the handler splits the next line off its buffer and parses it; a line that
\* is not JSON is passed over, a JSON value that is not an object makes
\* handle_command raise: the socket handler closes the connection, the virtio
\* loop logs and reopens the port
HandlerTakeLine(c) ==
    /\ UNCHANGED notAgent
    /\ conn[c].pc = "recv"
    /\ conn[c].inbox # <<>>
    /\ LET line == Head(conn[c].inbox)
           took == [conn[c] EXCEPT !.inbox = Tail(@), !.seen = @ + 1]
       IN conn' = [conn EXCEPT ![c] =
             CASE parse(line) = "JSONDecodeError" -> took
               [] parse(line) = "AttributeError" ->
                     [took EXCEPT !.pc = IF agentMode = "socket" THEN "closed" ELSE "recv"]
               [] OTHER -> [took EXCEPT !.pc = "handling", !.cur = line]]
    /\ UNCHANGED <<agentMode, agentRoot, fs, written, lastReq, lastResp>>

\* handle_command returns and the response line is written
HandlerRespond(c) ==
    /\ UNCHANGED notAgent
    /\ conn[c].pc = "handling"
    /\ \E r \in handle_command(conn[c].cur, fs, agentRoot) :
          /\ conn' = [conn EXCEPT ![c].pc = "recv", ![c].cur = NoLine,
                         ![c].out = Append(@, [req |-> conn[c].seen,
                                               success |-> r.resp.success,
                                               error |-> r.resp.error,
                                               data |-> r.resp.data])]
          /\ fs' = r.fs
          /\ written' = written_after(conn[c].cur, r)
    /\ UNCHANGED <<agentMode, agentRoot, lastReq, lastResp>>

\* recv() returns no data: the client has closed, the handler ends
ClientClose(c) ==
    /\ UNCHANGED notAgent
    /\ agentMode = "socket"
    /\ conn[c].pc = "recv"
    /\ conn[c].inbox = <<>>
    /\ conn' = [conn EXCEPT ![c].pc = "closed"]
    /\ UNCHANGED <<agentMode, agentRoot, fs, written, lastReq, lastResp>>

\* the strings a client passes as write_file's data: empty, lower and upper
\* case, whitespace between bytes, a non-hex character, an odd digit count
HexInputs ==
    {<<>>, <<"0", "a">>, <<"0", "A">>, <<"f", "f", " ", "0", "0">>,
     <<"0", "g">>, <<"a">>}

\* the request lines of the file-transfer model
FileLines ==
    {FileLine("write_file", p, d, m) :
        p \in Paths, d \in HexInputs, m \in {Mode644, Mode000}}
    \cup {FileLine("read_file", p, <<>>, {}) : p \in Paths}
    \cup {FileLine("analyze", p, <<>>, {}) : p \in Paths}
    \cup {FileLine("execute", "-", <<>>, {})}

\* one request line read, handled and answered by the serial virtio loop
FileRequest(line) ==
    /\ UNCHANGED notAgent
    /\ \E r \in handle_command(line, fs, agentRoot) :
          /\ fs' = r.fs
          /\ written' = written_after(line, r)
          /\ lastReq' = line
          /\ lastResp' = r.resp
    /\ UNCHANGED <<agentMode, agentRoot, conn>>

-----------------------------------------------------------------------------
(* SandboxAgent.analyze and its three collectors *)

Collectors == {"file", "net", "sys"}

\* a version of analyze that spawns the target before any collector is started
AnalyzeSteps_SpawnFirst ==
    <<"spawn", "start_file", "start_net", "start_sys", "wait",
      "stop_file", "stop_net", "stop_sys", "drain", "report">>

\* the statements of analyze's main thread that touch the target or a
\* collector, in program order; "wait" is communicate(timeout) with the kill
\* on timeout, "drain" the 0.5 s sleep, "report" the AnalysisResult
AnalyzeSteps ==
    <<"start_file", "start_net", "spawn", "start_sys", "wait",
      "stop_file", "stop_net", "stop_sys", "drain", "report">>

StartStep == [file |-> "start_file", net |-> "start_net", sys |-> "start_sys"]

StopStep == [file |-> "stop_file", net |-> "stop_net", sys |-> "stop_sys"]

StepIs(name) == apc \in 1..Len(AnalyzeSteps) /\ AnalyzeSteps[apc] = name

IndexOf(name) == CHOOSE i \in 1..Len(AnalyzeSteps) : AnalyzeSteps[i] = name

AnalyzeDone == apc = Len(AnalyzeSteps) + 1

NewCollector(ok) ==
    [started |-> FALSE, running |-> FALSE, thread |-> "none", proc |-> "none",
     tool_ok |-> ok]

\* the returncode of a target that exits by itself
ExitCodes == {0, 1}

\* before the result is built the record holds analyze's locals: error = None
\* ("none"), exit_code = None (the empty sequence; <<n>> is the integer n)
NoReport ==
    [built |-> FALSE, success |-> FALSE, error |-> "none", exit_code |-> <<>>,
     events |-> [c \in Collectors |-> <<>>]]

\* a version of the result that drops the events when the run had an error
build_report_bare(err, code, evs) ==
    [built |-> TRUE, success |-> (err = "none"), error |-> err,
     exit_code |-> code,
     events |-> IF err = "none" THEN evs ELSE [c \in Collectors |-> <<>>]]

\* a version of the result that reports failure when a collector's tool
\* never ran
build_report_strict(err, code, evs) ==
    [built |-> TRUE,
     success |-> (err = "none" /\ \A c \in Collectors : coll[c].proc # "none"),
     error |-> IF \E c \in Collectors : coll[c].proc = "none"
               THEN "collector failed" ELSE err,
     exit_code |-> code, events |-> evs]

\* AnalysisResult(success=error is None, exit_code=..., syscalls=..., files=...,
\* network=..., error=error)
build_report(err, code, evs) ==
    [built |-> TRUE, success |-> (err = "none"), error |-> err,
     exit_code |-> code, events |-> evs]

AnalyzeQuiet ==
    /\ apc = 1
    /\ target = "none"
    /\ coll = [c \in Collectors |-> NewCollector(TRUE)]
    /\ events = [c \in Collectors |-> <<>>]
    /\ report = NoReport
    /\ atrace = <<>>
    /\ evAtKill = [c \in Collectors |-> <<>>]

\* analyze is entered; which of strace, inotifywait and tcpdump can be run
\* in the guest is given
AnalyzeInit ==
    /\ apc = 1
    /\ target = "none"
    /\ \E ok \in [Collectors -> BOOLEAN] :
          coll = [c \in Collectors |-> NewCollector(ok[c])]
    /\ events = [c \in Collectors |-> <<>>]
    /\ report = NoReport
    /\ atrace = <<>>
    /\ evAtKill = [c \in Collectors |-> <<>>]

\* file_monitor.start(), network_monitor.start(), syscall_tracer.start(pid):
\* the flag is set and the collector's thread is started
MainStart(c) ==
    /\ UNCHANGED notAnalyze
    /\ StepIs(StartStep[c])
    /\ coll' = [coll EXCEPT ![c].started = TRUE, ![c].running = TRUE,
                            ![c].thread = "starting"]
    /\ atrace' = Append(atrace, StartStep[c])
    /\ apc' = apc + 1
    /\ UNCHANGED <<target, events, report, evAtKill>>

\* subprocess.Popen(cmd, ...) of the target: it runs, or Popen raises and the
\* except branch records the error and goes on to stop the collectors
MainSpawn ==
    /\ UNCHANGED notAnalyze
    /\ StepIs("spawn")
    /\ \E ok \in BOOLEAN :
          IF ok
          THEN /\ target' = "running"
               /\ apc' = apc + 1
               /\ report' = report
          ELSE /\ target' = "spawn_failed"
               /\ apc' = IndexOf("wait") + 1
               /\ report' = [report EXCEPT !.error = "exception text"]
    /\ atrace' = Append(atrace, "spawn")
    /\ UNCHANGED <<coll, events, evAtKill>>

\* the target ends by itself
TargetExit ==
    /\ UNCHANGED notAnalyze
    /\ target = "running"
    /\ target' = "exited"
    /\ UNCHANGED <<apc, coll, events, report, atrace, evAtKill>>

\* process.communicate(timeout=timeout): it returns the output of a target
\* that has exited, or the timeout expires on a running target, which is
\* killed and its output collected
MainWait ==
    /\ UNCHANGED notAnalyze
    /\ StepIs("wait")
    /\ IF target = "exited"
       THEN /\ \E code \in ExitCodes : report' = [report EXCEPT !.exit_code = <<code>>]
            /\ atrace' = Append(atrace, "exit")
            /\ UNCHANGED <<target, evAtKill>>
       ELSE /\ target' = "killed"
            /\ report' = [report EXCEPT !.error = "Timeout", !.exit_code = <<-1>>]
            /\ atrace' = Append(atrace, "kill")
            /\ evAtKill' = events
    /\ apc' = apc + 1
    /\ UNCHANGED <<coll, events>>

\* file_monitor.stop(), network_monitor.stop(), syscall_tracer.stop(): the
\* flag is cleared; the network and syscall collectors terminate the tool
\* process their thread has stored, the file collector has no handle on it
MainStop(c) ==
    /\ UNCHANGED notAnalyze
    /\ StepIs(StopStep[c])
    /\ coll' = [coll EXCEPT ![c].running = FALSE,
                            ![c].proc = IF c # "file" /\ @ = "alive" THEN "dead" ELSE @]
    /\ atrace' = Append(atrace, StopStep[c])
    /\ apc' = apc + 1
    /\ UNCHANGED <<target, events, report, evAtKill>>

\* time.sleep(0.5)
MainDrain ==
    /\ UNCHANGED notAnalyze
    /\ StepIs("drain")
    /\ atrace' = Append(atrace, "drain")
    /\ apc' = apc + 1
    /\ UNCHANGED <<target, coll, events, report, evAtKill>>

\* the AnalysisResult is built from the get_events() of the three collectors
MainReport ==
    /\ UNCHANGED notAnalyze
    /\ StepIs("report")
    /\ report' = build_report(report.error, report.exit_code, events)
    /\ atrace' = Append(atrace, "report")
    /\ apc' = apc + 1
    /\ UNCHANGED <<target, coll, events, evAtKill>>

\* the collector's thread runs subprocess.Popen on its tool: the tool runs,
\* or Popen raises, the exception is logged and the thread ends
CollectorSpawnTool(c) ==
    /\ UNCHANGED notAnalyze
    /\ coll[c].thread = "starting"
    /\ coll' = [coll EXCEPT ![c].thread = IF coll[c].tool_ok THEN "reading" ELSE "done",
                            ![c].proc = IF coll[c].tool_ok THEN "alive" ELSE "none"]
    /\ UNCHANGED <<apc, target, events, report, atrace, evAtKill>>

\* the tool emits a line and the thread's for loop reads it: with the flag
\* cleared the loop is left (the file collector then terminates its tool),
\* otherwise the line is parsed and, unless the parser drops it, appended
CollectorLine(c) ==
    /\ UNCHANGED notAnalyze
    /\ coll[c].thread = "reading"
    /\ coll[c].proc = "alive"
    /\ Len(events[c]) < MaxEvents
    /\ IF ~ coll[c].running
       THEN /\ coll' = [coll EXCEPT ![c].thread = "done",
                                    ![c].proc = IF c = "file" THEN "dead" ELSE @]
            /\ UNCHANGED events
       ELSE /\ \E parsed \in BOOLEAN :
                  events' = IF parsed
                            THEN [events EXCEPT ![c] =
                                     Append(@, [source |-> c, n |-> Len(@) + 1])]
                            ELSE events
            /\ UNCHANGED coll
    /\ UNCHANGED <<apc, target, report, atrace, evAtKill>>

\* the tool process ends by itself
ToolExit(c) ==
    /\ UNCHANGED notAnalyze
    /\ coll[c].proc = "alive"
    /\ coll' = [coll EXCEPT ![c].proc = "dead"]
    /\ UNCHANGED <<apc, target, events, report, atrace, evAtKill>>

\* the tool's pipe is at end of file: the thread's for loop ends
CollectorEOF(c) ==
    /\ UNCHANGED notAnalyze
    /\ coll[c].thread = "reading"
    /\ coll[c].proc = "dead"
    /\ coll' = [coll EXCEPT ![c].thread = "done"]
    /\ UNCHANGED <<apc, target, events, report, atrace, evAtKill>>

-----------------------------------------------------------------------------
(* Host-side scoring: indicator tables, ThreatScorer, the result of run *)

\* rows of SUSPICIOUS_IMPORTS: symbol -> (mitre, score)
SUSPICIOUS_IMPORTS ==
    [setuid |-> [mitre |-> "T1548", score |-> 30],
     setreuid |-> [mitre |-> "T1548", score |-> 30],
     setgid |-> [mitre |-> "T1548", score |-> 25],
     ptrace |-> [mitre |-> "T1055.008", score |-> 20],
     system |-> [mitre |-> "T1059", score |-> 15],
     execve |-> [mitre |-> "T1059", score |-> 10],
     popen |-> [mitre |-> "T1059", score |-> 15],
     socket |-> [mitre |-> "T1071", score |-> 10],
     connect |-> [mitre |-> "T1071", score |-> 10],
     bind |-> [mitre |-> "T1071", score |-> 10],
     init_module |-> [mitre |-> "T1547.006", score |-> 25],
     mprotect |-> [mitre |-> "T1055", score |-> 10]]

\* rows of SUSPICIOUS_STRINGS: regular expression -> (mitre, score)
SUSPICIOUS_STRINGS ==
    ("api\\.telegram\\.org" :> [mitre |-> "T1102", score |-> 20])
    @@ ("discord\\.com" :> [mitre |-> "T1102", score |-> 15])
    @@ ("/etc/shadow" :> [mitre |-> "T1003", score |-> 25])
    @@ ("/etc/passwd" :> [mitre |-> "T1003", score |-> 15])
    @@ ("\\.ssh/" :> [mitre |-> "T1552.004", score |-> 20])
    @@ ("LD_PRELOAD" :> [mitre |-> "T1574.006", score |-> 15])
    @@ ("PTRACE_TRACEME" :> [mitre |-> "T1622", score |-> 15])

\* rows of SUSPICIOUS_HOSTS: host -> (mitre, score)
SUSPICIOUS_HOSTS ==
    ("api.telegram.org" :> [mitre |-> "T1102", score |-> 20])
    @@ ("discord.com" :> [mitre |-> "T1102", score |-> 15])
    @@ ("pastebin.com" :> [mitre |-> "T1102", score |-> 15])
    @@ ("raw.githubusercontent.com" :> [mitre |-> "T1105", score |-> 10])
    @@ ("ipinfo.io" :> [mitre |-> "T1016", score |-> 10])
    @@ ("ip-api.com" :> [mitre |-> "T1016", score |-> 10])

\* ThreatEvent(source, ..., score, mitre); mitre "None" is Python's None; key is
\* the table row the event was made from
ThreatEvent(source, key, score, mitre) ==
    [source |-> source, key |-> key, score |-> score, mitre |-> mitre]

\* ELFAnalyzer._analyze_imports: the event for an imported symbol
import_event(sym) ==
    ThreatEvent("elf_import", sym, SUSPICIOUS_IMPORTS[sym].score,
                SUSPICIOUS_IMPORTS[sym].mitre)

\* ELFAnalyzer._analyze_strings: the event for a pattern found in the strings
string_event(pattern) ==
    ThreatEvent("elf_string", pattern, SUSPICIOUS_STRINGS[pattern].score,
                SUSPICIOUS_STRINGS[pattern].mitre)

\* NetworkMonitor._parse_line: the event for a DNS query of a listed host
host_event(host) ==
    ThreatEvent("network", host, SUSPICIOUS_HOSTS[host].score,
                SUSPICIOUS_HOSTS[host].mitre)

\* add_yara_matches: the event for a YaraMatch; mitre "" becomes None
yara_event(m) ==
    ThreatEvent("yara", "-", m.score, IF m.mitre = "" THEN "None" ELSE m.mitre)

\* the YARA matches of the model
YaraMatches == {[score |-> 90, mitre |-> ""], [score |-> 60, mitre |-> "T1027"]}

\* the events one behaviour draws from: the rows the spec's tables name and
\* the YARA matches
ScoredEvents ==
    {import_event(k) : k \in {"ptrace", "execve", "connect", "bind"}}
    \cup {string_event(k) :
            k \in {"/etc/shadow", "/etc/passwd", "\\.ssh/", "api\\.telegram\\.org"}}
    \cup {host_event(k) : k \in {"api.telegram.org"}}
    \cup {yara_event(m) : m \in YaraMatches}

\* the verdict_thresholds sections a configuration may have: none, both
\* levels, only one level
ThresholdConfigs ==
    {[x \in {} |-> 0], [clean |-> 10, suspicious |-> 30], [suspicious |-> 60]}

\* RuleEngine.get_threshold: patterns.get('verdict_thresholds', {}).get(level, 50)
get_threshold(thr, level) ==
    IF level \in DOMAIN thr THEN thr[level] ELSE 50

\* ThreatScorer.get_verdict
get_verdict(total, thr) ==
    IF total <= get_threshold(thr, "clean") THEN "CLEAN"
    ELSE IF total <= get_threshold(thr, "suspicious") THEN "SUSPICIOUS"
    ELSE "MALICIOUS"

\* a version of the reported score without the cap
threat_score_uncapped(total) == total

\* run: threat_score=min(scorer.total_score, 100)
threat_score(total) == IF total < 100 THEN total ELSE 100

\* the lists list(s) can return for a set s: every order of its elements
ListsOfSet(S) ==
    {q \in [1..Cardinality(S) -> S] : \A i, j \in 1..Cardinality(S) : q[i] = q[j] => i = j}

\* ThreatScorer.get_mitre_techniques: list({e.mitre for e in self.events if e.mitre})
get_mitre_techniques(evs) ==
    ListsOfSet({evs[i].mitre : i \in {j \in 1..Len(evs) : evs[j].mitre # "None"}})

NoVerdict ==
    [built |-> FALSE, verdict |-> "-", threat_score |-> 0, mitre_techniques |-> <<>>]

ScorerQuiet ==
    /\ thresholds = [x \in {} |-> 0]
    /\ scEvents = <<>>
    /\ total_score = 0
    /\ verdictOut = NoVerdict

\* DynamicAnalyzer.__init__ has loaded the patterns file, run has made a
\* fresh ThreatScorer
ScorerInit ==
    /\ thresholds \in ThresholdConfigs
    /\ scEvents = <<>>
    /\ total_score = 0
    /\ verdictOut = NoVerdict

\* ThreatScorer.add_event (reached through add_events and add_yara_matches)
add_event(e) ==
    /\ UNCHANGED notScorer
    /\ ~ verdictOut.built
    /\ Len(scEvents) < MaxScored
    /\ scEvents' = Append(scEvents, e)
    /\ total_score' = total_score + e.score
    /\ UNCHANGED <<thresholds, verdictOut>>

\* run builds the AnalysisResult from the scorer
RunResult ==
    /\ UNCHANGED notScorer
    /\ ~ verdictOut.built
    /\ \E techniques \in get_mitre_techniques(scEvents) :
          verdictOut' = [built |-> TRUE,
                         verdict |-> get_verdict(total_score, thresholds),
                         threat_score |-> threat_score(total_score),
                         mitre_techniques |-> techniques]
    /\ UNCHANGED <<thresholds, scEvents, total_score>>

-----------------------------------------------------------------------------
(* Anti-VM: HardwareSpoofer.generate_mac_address *)

UpperLetters == "ABCDEFGHIJKLMNOPQRSTUVWXYZ"

LowerLetters == "abcdefghijklmnopqrstuvwxyz"

\* the character at position i of a string, as a string
CharAt(str, i) == SubSeq(str, i, i)

\* str.upper() of one character
upper_char(ch) ==
    IF \E i \in 1..26 : CharAt(LowerLetters, i) = ch
    THEN CharAt(UpperLetters, CHOOSE i \in 1..26 : CharAt(LowerLetters, i) = ch)
    ELSE ch

\* str.lower() of one character
lower_char(ch) ==
    IF \E i \in 1..26 : CharAt(UpperLetters, i) = ch
    THEN CharAt(LowerLetters, CHOOSE i \in 1..26 : CharAt(UpperLetters, i) = ch)
    ELSE ch

RECURSIVE upper(_)
\* str.upper()
upper(str) ==
    IF Len(str) = 0 THEN ""
    ELSE IF Len(str) = 1 THEN upper_char(str)
    ELSE upper(SubSeq(str, 1, Len(str) \div 2))
             \o upper(SubSeq(str, Len(str) \div 2 + 1, Len(str)))

RECURSIVE lower(_)
\* str.lower()
lower(str) ==
    IF Len(str) = 0 THEN ""
    ELSE IF Len(str) = 1 THEN lower_char(str)
    ELSE lower(SubSeq(str, 1, Len(str) \div 2))
             \o lower(SubSeq(str, Len(str) \div 2 + 1, Len(str)))

\* str.startswith(prefix)
startswith(str, prefix) ==
    Len(prefix) <= Len(str) /\ SubSeq(str, 1, Len(prefix)) = prefix

\* sub in str
contains(str, sub) ==
    \E i \in 1..(Len(str) - Len(sub) + 1) : SubSeq(str, i, i + Len(sub) - 1) = sub

MAC_OUI_PREFIXES ==
    [dell |-> <<"D4:BE:D9", "18:03:73", "34:17:EB", "F8:DB:88", "00:14:22">>,
     hp |-> <<"94:57:A5", "00:21:5A", "38:63:BB", "3C:D9:2B", "00:1E:0B">>,
     lenovo |-> <<"00:06:1B", "7C:7A:91", "6C:C2:17", "68:F7:28", "98:FA:9B">>,
     intel |-> <<"00:1B:21", "00:1E:67", "00:15:17", "00:1C:BF", "00:13:E8">>,
     realtek |-> <<"00:E0:4C", "52:54:00", "00:0A:CD", "4C:ED:FB", "00:40:F4">>,
     broadcom |-> <<"00:10:18", "00:1A:2B", "00:24:D6", "60:33:4B", "44:94:FC">>,
     samsung |-> <<"00:12:47", "00:21:4C", "84:25:DB", "F0:1F:AF", "94:35:0A">>,
     asus |-> <<"00:1D:60", "00:15:F2", "2C:4D:54", "40:16:7E", "E0:3F:49">>]

\* the values random.randint(0, 255) takes in the model
DeviceBytes == {0, 90, 255}

\* f'{b:02X}'
hex02X(b) == HexUpper[(b \div 16) + 1] \o HexUpper[(b % 16) + 1]

\* MAC_OUI_PREFIXES.get(self.config.mac_vendor, MAC_OUI_PREFIXES['intel'])
oui_list(vendor) ==
    IF vendor \in DOMAIN MAC_OUI_PREFIXES
    THEN MAC_OUI_PREFIXES[vendor] ELSE MAC_OUI_PREFIXES["intel"]

MacQuiet ==
    /\ hwConfig = [mac_vendor |-> "dell", custom_mac |-> "None"]
    /\ macOut = ""

\* HardwareSpoofer(config): any vendor of the table or an unknown one, with
\* or without a custom MAC
MacInit ==
    /\ hwConfig \in [mac_vendor : DOMAIN MAC_OUI_PREFIXES \cup {"acme"},
                     custom_mac : {"None", "02:00:00:aa:bb:cc"}]
    /\ macOut = ""

\* HardwareSpoofer.generate_mac_address
generate_mac_address ==
    /\ UNCHANGED notMac
    /\ macOut = ""
    /\ IF hwConfig.custom_mac # "None"
       THEN macOut' = hwConfig.custom_mac
       ELSE \E i \in 1..Len(oui_list(hwConfig.mac_vendor)) :
            \E device_bytes \in [1..3 -> DeviceBytes] :
               macOut' = oui_list(hwConfig.mac_vendor)[i] \o ":"
                         \o hex02X(device_bytes[1]) \o ":"
                         \o hex02X(device_bytes[2]) \o ":"
                         \o hex02X(device_bytes[3])
    /\ UNCHANGED hwConfig

-----------------------------------------------------------------------------
(* Anti-VM: SMBIOSSpoofer *)

\* the table as the module defines it
SMBIOS_PROFILES ==
    [dell_optiplex |->
         [bios_vendor |-> "Dell Inc.",
          bios_version |-> "A12",
          bios_date |-> "03/15/2023",
          sys_manufacturer |-> "Dell Inc.",
          sys_product |-> "OptiPlex 7080",
          sys_version |-> "1.0",
          sys_serial |-> "",
          sys_uuid |-> "",
          sys_sku |-> "Desktop",
          sys_family |-> "OptiPlex",
          board_manufacturer |-> "Dell Inc.",
          board_product |-> "0X8DXD",
          board_version |-> "A00",
          board_serial |-> "",
          chassis_manufacturer |-> "Dell Inc.",
          chassis_type |-> "3",
          chassis_version |-> "1.0",
          chassis_serial |-> "",
          processor_manufacturer |-> "Intel(R) Corporation",
          processor_version |-> "Intel(R) Core(TM) i7-10700 CPU @ 2.90GHz"],
     dell_latitude |->
         [bios_vendor |-> "Dell Inc.",
          bios_version |-> "1.15.0",
          bios_date |-> "05/10/2023",
          sys_manufacturer |-> "Dell Inc.",
          sys_product |-> "Latitude 5520",
          sys_version |-> "1.0",
          sys_serial |-> "",
          sys_uuid |-> "",
          sys_sku |-> "Laptop",
          sys_family |-> "Latitude",
          board_manufacturer |-> "Dell Inc.",
          board_product |-> "0YWMR4",
          board_version |-> "A00",
          board_serial |-> "",
          chassis_manufacturer |-> "Dell Inc.",
          chassis_type |-> "10",
          chassis_version |-> "1.0",
          chassis_serial |-> "",
          processor_manufacturer |-> "Intel(R) Corporation",
          processor_version |-> "11th Gen Intel(R) Core(TM) i5-1145G7 @ 2.60GHz"],
     hp_prodesk |->
         [bios_vendor |-> "HP",
          bios_version |-> "S14 Ver. 02.09.00",
          bios_date |-> "05/20/2023",
          sys_manufacturer |-> "HP",
          sys_product |-> "HP ProDesk 400 G7 Small Form Factor",
          sys_version |-> "1.0",
          sys_serial |-> "",
          sys_uuid |-> "",
          sys_sku |-> "8QY21AV",
          sys_family |-> "HP ProDesk",
          board_manufacturer |-> "HP",
          board_product |-> "8767",
          board_version |-> "KBC Version 08.60.00",
          board_serial |-> "",
          chassis_manufacturer |-> "HP",
          chassis_type |-> "3",
          chassis_version |-> "1.0",
          chassis_serial |-> "",
          processor_manufacturer |-> "Intel(R) Corporation",
          processor_version |-> "Intel(R) Core(TM) i5-10500 CPU @ 3.10GHz"],
     hp_elitebook |->
         [bios_vendor |-> "HP",
          bios_version |-> "T76 Ver. 01.12.00",
          bios_date |-> "04/15/2023",
          sys_manufacturer |-> "HP",
          sys_product |-> "HP EliteBook 840 G8 Notebook PC",
          sys_version |-> "1.0",
          sys_serial |-> "",
          sys_uuid |-> "",
          sys_sku |-> "3C8F3EA#ABB",
          sys_family |-> "HP EliteBook",
          board_manufacturer |-> "HP",
          board_product |-> "880D",
          board_version |-> "KBC Version 51.30.00",
          board_serial |-> "",
          chassis_manufacturer |-> "HP",
          chassis_type |-> "10",
          chassis_version |-> "1.0",
          chassis_serial |-> "",
          processor_manufacturer |-> "Intel(R) Corporation",
          processor_version |-> "11th Gen Intel(R) Core(TM) i7-1165G7 @ 2.80GHz"],
     lenovo_thinkcentre |->
         [bios_vendor |-> "LENOVO",
          bios_version |-> "M3CKT49A",
          bios_date |-> "01/10/2023",
          sys_manufacturer |-> "LENOVO",
          sys_product |-> "ThinkCentre M920q",
          sys_version |-> "ThinkCentre M920q",
          sys_serial |-> "",
          sys_uuid |-> "",
          sys_sku |-> "10V8S04X00",
          sys_family |-> "ThinkCentre M920q Tiny",
          board_manufacturer |-> "LENOVO",
          board_product |-> "313D",
          board_version |-> "SDK0J40697 WIN",
          board_serial |-> "",
          chassis_manufacturer |-> "LENOVO",
          chassis_type |-> "35",
          chassis_version |-> "1.0",
          chassis_serial |-> "",
          processor_manufacturer |-> "Intel(R) Corporation",
          processor_version |-> "Intel(R) Core(TM) i7-9700T CPU @ 2.00GHz"],
     lenovo_thinkpad |->
         [bios_vendor |-> "LENOVO",
          bios_version |-> "N33ET69W (1.50)",
          bios_date |-> "06/01/2023",
          sys_manufacturer |-> "LENOVO",
          sys_product |-> "ThinkPad T14 Gen 2i",
          sys_version |-> "ThinkPad T14 Gen 2i",
          sys_serial |-> "",
          sys_uuid |-> "",
          sys_sku |-> "20W0CTO1WW",
          sys_family |-> "ThinkPad T14 Gen 2i",
          board_manufacturer |-> "LENOVO",
          board_product |-> "20W0CTO1WW",
          board_version |-> "SDK0J40697 WIN",
          board_serial |-> "",
          chassis_manufacturer |-> "LENOVO",
          chassis_type |-> "10",
          chassis_version |-> "1.0",
          chassis_serial |-> "",
          processor_manufacturer |-> "Intel(R) Corporation",
          processor_version |-> "11th Gen Intel(R) Core(TM) i7-1165G7 @ 2.80GHz"],
     asus_desktop |->
         [bios_vendor |-> "American Megatrends Inc.",
          bios_version |-> "3801",
          bios_date |-> "02/22/2023",
          sys_manufacturer |-> "ASUS",
          sys_product |-> "System Product Name",
          sys_version |-> "System Version",
          sys_serial |-> "",
          sys_uuid |-> "",
          sys_sku |-> "SKU",
          sys_family |-> "ASUS_MB_CNL",
          board_manufacturer |-> "ASUSTeK COMPUTER INC.",
          board_product |-> "ROG STRIX Z490-E GAMING",
          board_version |-> "Rev 1.xx",
          board_serial |-> "",
          chassis_manufacturer |-> "Default string",
          chassis_type |-> "3",
          chassis_version |-> "1.0",
          chassis_serial |-> "",
          processor_manufacturer |-> "Intel(R) Corporation",
          processor_version |-> "Intel(R) Core(TM) i9-10900K CPU @ 3.70GHz"]]

RECURSIVE Pad(_, _)
\* str extended with "0" up to length k
Pad(str, k) == IF Len(str) >= k THEN str ELSE Pad(str \o "0", k)

\* some of the strings ''.join(random.choices(string.ascii_uppercase +
\* string.digits, k=k)) can return
choices(k) == {Pad("7F", k), Pad("KVM", k)}

\* a string str(uuid.uuid4()) can return
Uuids == {"3f1c2e0a-9b47-4d21-8a6e-5c0f7b1d2e93"}

\* the random draws one _fill_auto_values call can make
RandomDraws(profile) ==
    [serial : IF contains(profile.sys_manufacturer, "Dell") THEN choices(7)
              ELSE IF contains(profile.sys_manufacturer, "HP") THEN choices(7)
              ELSE IF contains(profile.sys_manufacturer, "LENOVO") THEN choices(6)
              ELSE choices(10),
     uuid : Uuids,
     board : choices(10)]

\* SMBIOSSpoofer._fill_auto_values on a profile object, with the random draws r
fill_auto_values(profile, r) ==
    LET sys_serial ==
            IF profile.sys_serial # "" THEN profile.sys_serial
            ELSE IF contains(profile.sys_manufacturer, "Dell") THEN r.serial
            ELSE IF contains(profile.sys_manufacturer, "HP") THEN "MXL" \o r.serial
            ELSE IF contains(profile.sys_manufacturer, "LENOVO") THEN "PF" \o r.serial
            ELSE r.serial
    IN [profile EXCEPT
           !.sys_serial = sys_serial,
           !.sys_uuid = IF @ # "" THEN @ ELSE r.uuid,
           !.board_serial = IF @ # "" THEN @ ELSE "./" \o r.board \o "/.",
           !.chassis_serial = IF @ # "" THEN @ ELSE sys_serial]

\* SMBIOSSpoofer.get_qemu_args
get_qemu_args(p) ==
    <<"-smbios",
      "type=0,vendor=" \o p.bios_vendor \o ",version=" \o p.bios_version
          \o ",date=" \o p.bios_date,
      "-smbios",
      "type=1,manufacturer=" \o p.sys_manufacturer \o ",product=" \o p.sys_product
          \o ",version=" \o p.sys_version \o ",serial=" \o p.sys_serial
          \o ",uuid=" \o p.sys_uuid \o ",sku=" \o p.sys_sku
          \o ",family=" \o p.sys_family,
      "-smbios",
      "type=2,manufacturer=" \o p.board_manufacturer \o ",product=" \o p.board_product
          \o ",version=" \o p.board_version \o ",serial=" \o p.board_serial,
      "-smbios",
      "type=3,manufacturer=" \o p.chassis_manufacturer \o ",type=" \o p.chassis_type
          \o ",version=" \o p.chassis_version \o ",serial=" \o p.chassis_serial,
      "-smbios",
      "type=4,manufacturer=" \o p.processor_manufacturer
          \o ",version=" \o p.processor_version>>

\* the profile names a caller passes: the table's keys and an unknown one
ProfileNames == DOMAIN SMBIOS_PROFILES \cup {"acme_box"}

NoArgs == [spoofer |-> 0, args |-> <<>>]

SmbiosQuiet ==
    /\ smProfiles = SMBIOS_PROFILES
    /\ smSpoofers = <<>>
    /\ smArgs = NoArgs

\* SMBIOSSpoofer(profile_name=...): self.profile is the table's own object,
\* which _fill_auto_values then completes in place
NewSpoofer(profile_name) ==
    /\ UNCHANGED notSmbios
    /\ Len(smSpoofers) < MaxSpoofers
    /\ LET ref == IF profile_name \in DOMAIN SMBIOS_PROFILES
                  THEN profile_name ELSE "dell_optiplex"
       IN /\ \E r \in RandomDraws(smProfiles[ref]) :
                smProfiles' = [smProfiles EXCEPT ![ref] = fill_auto_values(@, r)]
          /\ smSpoofers' = Append(smSpoofers, [profile |-> ref])
    /\ UNCHANGED smArgs

\* spoofer.get_qemu_args() on the i-th spoofer
GetQemuArgs(i) ==
    /\ UNCHANGED notSmbios
    /\ i \in 1..Len(smSpoofers)
    /\ smArgs' = [spoofer |-> i, args |-> get_qemu_args(smProfiles[smSpoofers[i].profile])]
    /\ UNCHANGED <<smProfiles, smSpoofers>>

-----------------------------------------------------------------------------
(* Guest agent: the stdout and stderr fields of the analysis result *)

\* A byte string is kept as a sequence of runs [kind, n]: n characters of one
\* kind in a row.  "ascii" is a one-byte character, "two" a character whose
\* UTF-8 encoding has two bytes, "bad" a byte that is not valid UTF-8.
Width(kind) == IF kind = "two" THEN 2 ELSE 1

Run(kind, n) == [kind |-> kind, n |-> n]

RECURSIVE ByteLen(_)
\* len() of a bytes object
ByteLen(runs) ==
    IF runs = <<>> THEN 0
    ELSE Head(runs).n * Width(Head(runs).kind) + ByteLen(Tail(runs))

\* bytes.decode('utf-8', errors='ignore'): invalid bytes are dropped
decode_ignore(runs) == SelectSeq(runs, LAMBDA r : r.kind # "bad")

RECURSIVE slice_to(_, _)
\* text[:k] of a str
slice_to(runs, k) ==
    IF runs = <<>> \/ k <= 0 THEN <<>>
    ELSE IF Head(runs).n <= k
         THEN <<Head(runs)>> \o slice_to(Tail(runs), k - Head(runs).n)
         ELSE <<Run(Head(runs).kind, k)>>

\* the slice bound of stdout[:10000] and stderr[:10000]
OutputLimit == 10000

\* the output lengths tried: around the slice bound and around 10 KiB
OutputLengths == {1, 9999, 10000, 10001, 10240, 10241}

\* the outputs a target can leave on one pipe
Outputs ==
    {<<>>}
    \cup {<<Run("ascii", n)>> : n \in OutputLengths}
    \cup {<<Run("two", 5000)>>, <<Run("two", 5120)>>, <<Run("two", 5121)>>}
    \cup {<<Run("bad", 1), Run("ascii", 10000)>>, <<Run("ascii", 10), Run("bad", 2)>>}

NoFields == [built |-> FALSE, stdout |-> <<>>, stderr |-> <<>>]

OutputQuiet ==
    /\ captured = [stdout |-> <<>>, stderr |-> <<>>]
    /\ outFields = NoFields

\* process.communicate() has returned some stdout and stderr
OutputInit ==
    /\ captured \in [stdout : Outputs, stderr : Outputs]
    /\ outFields = NoFields

\* analyze, from the return of communicate() to the AnalysisResult
BuildOutputFields ==
    /\ UNCHANGED notOutput
    /\ ~ outFields.built
    /\ outFields' = [built |-> TRUE,
                     stdout |-> slice_to(decode_ignore(captured.stdout), OutputLimit),
                     stderr |-> slice_to(decode_ignore(captured.stderr), OutputLimit)]
    /\ UNCHANGED captured

-----------------------------------------------------------------------------
(* VM supervisor: the graceful stop and its QMP session *)

\* the statements of _send_qmp_command's try block, in program order
QmpScript_NoCaps ==
    <<"connect", "settimeout", "recv", "send_cmd", "recv", "loads">>

QmpScript ==
    <<"connect", "settimeout", "recv", "send_caps", "recv", "send_cmd", "recv", "loads">>

\* the command objects the launcher passes to _send_qmp_command
QmpCommands == {"system_powerdown"}

\* a version of stop's handler that catches socket errors only
caught_oserror(exc) ==
    exc \in {"FileNotFoundError", "ConnectionRefusedError", "timeout", "BrokenPipeError"}

\* stop's "except Exception": every exception the try block can raise is one
caught(exc) ==
    exc \in {"FileNotFoundError", "ConnectionRefusedError", "timeout", "BrokenPipeError",
             "JSONDecodeError", "TimeoutExpired"}

StopIdle == [pc |-> "idle", step |-> 0, exc |-> "none", cmd |-> "-",
             resp |-> <<>>, killed |-> FALSE]

\* a QEMU that launch has registered: running, monitor socket listening, no
\* client connected, the guest as booted
QemuRunning ==
    [alive |-> TRUE, conn |-> "none", mode |-> "none", inbox |-> <<>>,
     outbox |-> <<>>, events |-> 0, powerdown |-> FALSE, tasks |-> 0]

QmpQuiet ==
    /\ qstop = StopIdle
    /\ qreg = TRUE
    /\ qsock = "none"
    /\ qlog = <<>>
    /\ qemu = QemuRunning

LogEntry(op, data) == [op |-> op, data |-> data]

\* the try block is left: with the exception exc, or by the return statement
\* when exc is "none"
QmpLeave(exc, resp) ==
    qstop' = [qstop EXCEPT !.pc = "finally", !.exc = exc, !.resp = resp]

QmpAdvance == qstop' = [qstop EXCEPT !.step = @ + 1]

\* stop(vm_name, force=False) on a registered name, up to the socket() call
\* of _send_qmp_command
StopGraceful ==
    /\ UNCHANGED notQmp
    /\ qstop.pc = "idle"
    /\ qreg
    /\ \E c \in QmpCommands :
          qstop' = [qstop EXCEPT !.pc = "qmp", !.step = 1, !.cmd = c]
    /\ qsock' = "open"
    /\ UNCHANGED <<qreg, qlog, qemu>>

\* one statement of the try block.  recv returns what has arrived (all of
\* it, up to 4096 bytes), b'' when the peer has closed, and raises
\* socket.timeout after 5 s without data; send raises when the peer is gone
QmpStep ==
    /\ UNCHANGED notQmp
    /\ qstop.pc = "qmp"
    /\ UNCHANGED <<qreg, qsock>>
    /\ LET stmt == QmpScript[qstop.step]
       IN CASE stmt = "connect" ->
                 IF qemu.alive
                 THEN /\ qemu' = [qemu EXCEPT !.conn = "pending"]
                      /\ qlog' = Append(qlog, LogEntry("connect", <<>>))
                      /\ QmpAdvance
                 ELSE /\ \E e \in {"FileNotFoundError", "ConnectionRefusedError"} :
                            QmpLeave(e, <<>>)
                      /\ UNCHANGED <<qlog, qemu>>
            [] stmt = "settimeout" ->
                 /\ QmpAdvance
                 /\ UNCHANGED <<qlog, qemu>>
            [] stmt = "recv" ->
                 IF qemu.outbox # <<>>
                 THEN /\ qemu' = [qemu EXCEPT !.outbox = <<>>]
                      /\ qlog' = Append(qlog, LogEntry("recv", qemu.outbox))
                      /\ qstop' = [qstop EXCEPT !.step = @ + 1, !.resp = qemu.outbox]
                 ELSE IF ~ qemu.alive
                 THEN /\ qlog' = Append(qlog, LogEntry("recv", <<>>))
                      /\ qstop' = [qstop EXCEPT !.step = @ + 1, !.resp = <<>>]
                      /\ UNCHANGED qemu
                 ELSE /\ QmpLeave("timeout", <<>>)
                      /\ UNCHANGED <<qlog, qemu>>
            [] stmt \in {"send_caps", "send_cmd"} ->
                 LET msg == IF stmt = "send_caps" THEN "qmp_capabilities" ELSE qstop.cmd
                 IN IF qemu.alive
                    THEN /\ qemu' = [qemu EXCEPT !.inbox = Append(@, msg)]
                         /\ qlog' = Append(qlog, LogEntry("send", <<msg>>))
                         /\ QmpAdvance
                    ELSE /\ QmpLeave("BrokenPipeError", <<>>)
                         /\ UNCHANGED <<qlog, qemu>>
            [] stmt = "loads" ->
                 \* json.loads(response.decode()): one JSON value, or an error
                 /\ IF Len(qstop.resp) = 1
                    THEN QmpLeave("none", qstop.resp)
                    ELSE QmpLeave("JSONDecodeError", <<>>)
                 /\ UNCHANGED <<qlog, qemu>>

\* finally: sock.close(); then stop goes on with the wait, the handler, or
\* lets the exception through
QmpFinally ==
    /\ UNCHANGED notQmp
    /\ qstop.pc = "finally"
    /\ qsock' = "closed"
    /\ qemu' = [qemu EXCEPT !.conn = IF @ = "none" THEN "none" ELSE "closed"]
    /\ qstop' = [qstop EXCEPT !.pc = IF qstop.exc = "none" THEN "wait10"
                                     ELSE IF caught(qstop.exc) THEN "kill"
                                     ELSE "raised"]
    /\ UNCHANGED <<qreg, qlog>>

\* proc.process.wait(timeout=10): returns once the child has exited, raises
\* TimeoutExpired otherwise
StopWait10 ==
    /\ UNCHANGED notQmp
    /\ qstop.pc = "wait10"
    /\ qstop' = IF ~ qemu.alive THEN [qstop EXCEPT !.pc = "reap"]
                ELSE [qstop EXCEPT !.exc = "TimeoutExpired",
                                   !.pc = IF caught("TimeoutExpired") THEN "kill"
                                          ELSE "raised"]
    /\ UNCHANGED <<qreg, qsock, qlog, qemu>>

\* except Exception: proc.process.kill()
StopKill ==
    /\ UNCHANGED notQmp
    /\ qstop.pc = "kill"
    /\ qemu' = [qemu EXCEPT !.alive = FALSE]
    /\ qstop' = [qstop EXCEPT !.pc = "reap", !.killed = TRUE]
    /\ UNCHANGED <<qreg, qsock, qlog>>

\* proc.process.wait() returns, the entry is deleted, the sockets unlinked
StopReap ==
    /\ UNCHANGED notQmp
    /\ qstop.pc = "reap"
    /\ ~ qemu.alive
    /\ qreg' = FALSE
    /\ qstop' = [qstop EXCEPT !.pc = "done"]
    /\ UNCHANGED <<qsock, qlog, qemu>>

\* QEMU accepts the monitor client and writes the greeting
QemuAccept ==
    /\ UNCHANGED notQmp
    /\ qemu.alive
    /\ qemu.conn = "pending"
    /\ qemu' = [qemu EXCEPT !.conn = "accepted", !.mode = "capabilities",
                            !.outbox = Append(@, "greeting")]
    /\ UNCHANGED <<qstop, qreg, qsock, qlog>>

\* QEMU reads one command: before negotiation only qmp_capabilities is
\* accepted; a restore of a snapshot puts the guest back to its saved state
QemuHandle ==
    /\ UNCHANGED notQmp
    /\ qemu.alive
    /\ qemu.conn \in {"accepted", "closed"}
    /\ qemu.inbox # <<>>
    /\ LET msg == Head(qemu.inbox)
           rest == [qemu EXCEPT !.inbox = Tail(@)]
       IN qemu' =
            CASE qemu.mode = "capabilities" /\ msg = "qmp_capabilities" ->
                    [rest EXCEPT !.mode = "command",
                                 !.outbox = Append(@, "return_capabilities")]
              [] qemu.mode = "capabilities" ->
                    [rest EXCEPT !.outbox = Append(@, "error_CommandNotFound")]
              [] msg = "system_powerdown" ->
                    [rest EXCEPT !.powerdown = TRUE,
                                 !.outbox = Append(@, "return_command")]
              [] msg = "loadvm" ->
                    [rest EXCEPT !.tasks = 0, !.outbox = Append(@, "return_command")]
              [] OTHER ->
                    [rest EXCEPT !.outbox = Append(@, "error_CommandNotFound")]
    /\ UNCHANGED <<qstop, qreg, qsock, qlog>>

\* QEMU in command mode emits an asynchronous event
QemuEvent ==
    /\ UNCHANGED notQmp
    /\ qemu.alive
    /\ qemu.conn = "accepted"
    /\ qemu.mode = "command"
    /\ qemu.events < MaxQmpEvents
    /\ qemu' = [qemu EXCEPT !.events = @ + 1, !.outbox = Append(@, "event")]
    /\ UNCHANGED <<qstop, qreg, qsock, qlog>>

\* the QEMU process exits: the guest powered off, or QEMU crashed
QemuExit ==
    /\ UNCHANGED notQmp
    /\ qemu.alive
    /\ qemu' = [qemu EXCEPT !.alive = FALSE]
    /\ UNCHANGED <<qstop, qreg, qsock, qlog>>

\* the agent in the guest reads an analyze request, runs the target and
\* answers; its loop then waits for the next request
GuestTask ==
    /\ UNCHANGED notQmp
    /\ qemu.alive
    /\ qemu.tasks < MaxTasks
    /\ qemu' = [qemu EXCEPT !.tasks = @ + 1]
    /\ UNCHANGED <<qstop, qreg, qsock, qlog>>

-----------------------------------------------------------------------------
(* One collector: the tool's pipe, the reader thread, the event list *)

\* the collectors of the guest agent (agent.py) and the host-side network
\* monitor (dynamic.py)
PipeKinds == Collectors \cup {"host_net"}

\* the collector class creates a threading.Lock and takes it around every use
\* of its list: dynamic.NetworkMonitor does, the agent's three classes have
\* no lock at all
uses_lock(kind) == kind = "host_net"

\* a version of the append that puts the new event first
append_event_front(list, e) == <<e>> \o list

\* self.events.append(event)
append_event(list, e) == Append(list, e)

PipeStart(kind) ==
    [kind |-> kind, running |-> TRUE, tool |-> "alive", emitted |-> 0,
     pc |-> "for", cur |-> 0, stopped |-> FALSE, owner |-> "idle"]

PipeQuiet ==
    /\ pstate = PipeStart("sys")
    /\ ppipe = <<>>
    /\ pevents = <<>>
    /\ plock = "free"
    /\ psnaps = <<>>

\* start() has returned and the thread has started its tool
PipeInit ==
    /\ pstate \in {PipeStart(k) : k \in PipeKinds}
    /\ ppipe = <<>>
    /\ pevents = <<>>
    /\ plock = "free"
    /\ psnaps = <<>>

\* the tool writes its next line; lines are numbered as they are written
PipeEmit ==
    /\ UNCHANGED notPipe
    /\ pstate.tool = "alive"
    /\ pstate.emitted < MaxToolLines
    /\ ppipe' = Append(ppipe, pstate.emitted + 1)
    /\ pstate' = [pstate EXCEPT !.emitted = @ + 1]
    /\ UNCHANGED <<pevents, plock, psnaps>>

\* the tool exits, by itself or terminated by stop()
PipeToolExit ==
    /\ UNCHANGED notPipe
    /\ pstate.tool = "alive"
    /\ pstate' = [pstate EXCEPT !.tool = "dead"]
    /\ UNCHANGED <<ppipe, pevents, plock, psnaps>>

\* for line in process.stdout: the next line is read; if not self._running: break
ReaderNext ==
    /\ UNCHANGED notPipe
    /\ pstate.pc = "for"
    /\ ppipe # <<>>
    /\ ppipe' = Tail(ppipe)
    /\ pstate' = IF pstate.running
                 THEN [pstate EXCEPT !.pc = "parse", !.cur = Head(ppipe)]
                 ELSE [pstate EXCEPT !.pc = "done"]
    /\ UNCHANGED <<pevents, plock, psnaps>>

\* the line is parsed: it is dropped, or an event is made from it; a class
\* without a lock appends it at once
ReaderParse ==
    /\ UNCHANGED notPipe
    /\ pstate.pc = "parse"
    /\ \E parsed \in BOOLEAN :
          IF ~ parsed
          THEN /\ pstate' = [pstate EXCEPT !.pc = "for", !.cur = 0]
               /\ UNCHANGED <<pevents, plock>>
          ELSE IF uses_lock(pstate.kind)
          THEN /\ plock = "free"
               /\ plock' = "reader"
               /\ pstate' = [pstate EXCEPT !.pc = "locked"]
               /\ UNCHANGED pevents
          ELSE /\ pevents' = append_event(pevents, [n |-> pstate.cur])
               /\ pstate' = [pstate EXCEPT !.pc = "for", !.cur = 0]
               /\ UNCHANGED plock
    /\ UNCHANGED <<ppipe, psnaps>>

\* with self._lock: self._events.append(event)
ReaderAppendLocked ==
    /\ UNCHANGED notPipe
    /\ pstate.pc = "locked"
    /\ pevents' = append_event(pevents, [n |-> pstate.cur])
    /\ plock' = "free"
    /\ pstate' = [pstate EXCEPT !.pc = "for", !.cur = 0]
    /\ UNCHANGED <<ppipe, psnaps>>

\* the pipe is at end of file: the for loop ends
ReaderEOF ==
    /\ UNCHANGED notPipe
    /\ pstate.pc = "for"
    /\ ppipe = <<>>
    /\ pstate.tool = "dead"
    /\ pstate' = [pstate EXCEPT !.pc = "done"]
    /\ UNCHANGED <<ppipe, pevents, plock, psnaps>>

\* stop(): self._running = False; every class but the agent's FileMonitor
\* then terminates the tool process
OwnerStop ==
    /\ UNCHANGED notPipe
    /\ pstate.owner = "idle"
    /\ ~ pstate.stopped
    /\ pstate' = [pstate EXCEPT !.running = FALSE, !.stopped = TRUE,
                                !.tool = IF pstate.kind = "file" THEN @ ELSE "dead"]
    /\ UNCHANGED <<ppipe, pevents, plock, psnaps>>

\* get_events() is called: a class with a lock takes it first, the others
\* copy the list as it is
OwnerGetEvents ==
    /\ UNCHANGED notPipe
    /\ pstate.owner = "idle"
    /\ Len(psnaps) < MaxSnaps
    /\ IF uses_lock(pstate.kind)
       THEN /\ plock = "free"
            /\ plock' = "owner"
            /\ pstate' = [pstate EXCEPT !.owner = "locked"]
            /\ UNCHANGED psnaps
       ELSE /\ psnaps' = Append(psnaps, pevents)
            /\ UNCHANGED <<pstate, plock>>
    /\ UNCHANGED <<ppipe, pevents>>

\* with self._lock: return list(self._events)
OwnerCopyLocked ==
    /\ UNCHANGED notPipe
    /\ pstate.owner = "locked"
    /\ psnaps' = Append(psnaps, pevents)
    /\ plock' = "free"
    /\ pstate' = [pstate EXCEPT !.owner = "idle"]
    /\ UNCHANGED <<ppipe, pevents>>

-----------------------------------------------------------------------------
(* Telegram bot: access lists, admin actions, file callbacks *)

\* user ids (a private chat has its user's id) and the id of a group chat
Uids == {1, 2}
GroupIds == {-7}

abs(x) == IF x < 0 THEN -x ELSE x

\* x in list
InList(list, x) == \E i \in 1..Len(list) : list[i] = x

\* list.remove(x): the first x is taken out; ValueError when there is none
list_remove(list, x) ==
    IF ~ InList(list, x) THEN [ok |-> FALSE, list |-> list]
    ELSE LET k == CHOOSE i \in 1..Len(list) :
                     list[i] = x /\ \A j \in 1..(i - 1) : list[j] # x
         IN [ok |-> TRUE, list |-> SubSeq(list, 1, k - 1) \o SubSeq(list, k + 1, Len(list))]

\* the elements of a list
Elems(list) == {list[i] : i \in 1..Len(list)}

\* the lists of ids a users file can hold under one key
IdLists(ids) == UNION {[1..k -> ids] : k \in 0..MaxListed}

is_admin(uid) == InList(botPAdmins, uid)

\* a version of has_access that reads the two lists of the users file
has_access_by_role(uid) == InList(botPAdmins, uid) \/ InList(botAdmins, uid)

has_access(uid) == InList(botAllowed, uid)

\* get_folder: downloads/group_<abs(id)> or downloads/<id>
get_folder(id, is_grp) == IF is_grp THEN <<"group", abs(id)>> ELSE <<"user", id>>

Folders == {get_folder(u, FALSE) : u \in Uids}
               \cup {get_folder(c, TRUE) : c \in Uids \cup GroupIds}

NoCall == [op |-> "none", uid |-> 0, cid |-> 0, data |-> "-", effect |-> "none",
           access |-> FALSE, group_ok |-> FALSE]

Call(op, uid, cid, data, effect) ==
    [op |-> op, uid |-> uid, cid |-> cid, data |-> data, effect |-> effect,
     access |-> has_access(uid), group_ok |-> InList(botGroups, cid)]

BotQuiet ==
    /\ botPAdmins = <<>>
    /\ botAdmins = <<>>
    /\ botAllowed = <<>>
    /\ botGroups = <<>>
    /\ botFiles = [f \in Folders |-> 0]
    /\ botLast = NoCall

\* the module has been imported: load_users has read some users file and
\* ALLOWED_USERS = list(set(PRIVATE_ADMINS + ADMINS))
BotInit ==
    /\ botPAdmins \in IdLists(Uids)
    /\ botAdmins \in IdLists(Uids)
    /\ botAllowed \in ListsOfSet(Elems(botPAdmins) \cup Elems(botAdmins))
    /\ botGroups \in {<<>>, <<-7>>}
    /\ botFiles = [f \in Folders |-> 0]
    /\ botLast = NoCall

\* admin_action(msg, action) with msg.text the number val, reached through
\* on_cb's admin branch (a super-admin pressed the button).  USER_DATA[key]
\* and the module-level list are one object, so the two appends and the two
\* removes of the code act on the same list; a ValueError leaves the handler
\* at the statement that raised it
AdminAction(uid, action, val) ==
    /\ UNCHANGED notBot
    /\ is_admin(uid)
    /\ UNCHANGED botFiles
    /\ CASE action = "add_admin" ->
              IF ~ InList(botAdmins, val)
              THEN /\ botAdmins' = Append(Append(botAdmins, val), val)
                   /\ botAllowed' = Append(botAllowed, val)
                   /\ botLast' = Call(action, uid, uid, "-", "added")
                   /\ UNCHANGED <<botPAdmins, botGroups>>
              ELSE /\ botLast' = Call(action, uid, uid, "-", "none")
                   /\ UNCHANGED <<botPAdmins, botAdmins, botAllowed, botGroups>>
         [] action = "add_padmin" ->
              IF ~ InList(botPAdmins, val)
              THEN /\ botPAdmins' = Append(Append(botPAdmins, val), val)
                   /\ botAllowed' = IF InList(botAllowed, val) THEN botAllowed
                                    ELSE Append(botAllowed, val)
                   /\ botLast' = Call(action, uid, uid, "-", "added")
                   /\ UNCHANGED <<botAdmins, botGroups>>
              ELSE /\ botLast' = Call(action, uid, uid, "-", "none")
                   /\ UNCHANGED <<botPAdmins, botAdmins, botAllowed, botGroups>>
         [] action = "block" ->
              IF InList(botPAdmins, val)
              THEN /\ botLast' = Call(action, uid, uid, "-", "refused")
                   /\ UNCHANGED <<botPAdmins, botAdmins, botAllowed, botGroups>>
              ELSE IF InList(botAllowed, val)
              THEN IF InList(botAdmins, val)
                   THEN LET r1 == list_remove(botAdmins, val)
                            r2 == list_remove(r1.list, val)
                        IN /\ botAdmins' = r2.list
                           /\ botAllowed' = IF r2.ok THEN list_remove(botAllowed, val).list
                                            ELSE botAllowed
                           /\ botLast' = Call(action, uid, uid, "-",
                                              IF r2.ok THEN "blocked" ELSE "ValueError")
                           /\ UNCHANGED <<botPAdmins, botGroups>>
                   ELSE /\ botAllowed' = list_remove(botAllowed, val).list
                        /\ botLast' = Call(action, uid, uid, "-", "blocked")
                        /\ UNCHANGED <<botPAdmins, botAdmins, botGroups>>
              ELSE /\ botLast' = Call(action, uid, uid, "-", "none")
                   /\ UNCHANGED <<botPAdmins, botAdmins, botAllowed, botGroups>>
         [] action = "add_grp" ->
              IF val >= 0 \/ InList(botGroups, val)
              THEN /\ botLast' = Call(action, uid, uid, "-", "none")
                   /\ UNCHANGED <<botPAdmins, botAdmins, botAllowed, botGroups>>
              ELSE /\ botGroups' = Append(Append(botGroups, val), val)
                   /\ botLast' = Call(action, uid, uid, "-", "added")
                   /\ UNCHANGED <<botPAdmins, botAdmins, botAllowed>>
         [] action = "del_grp" ->
              IF InList(botGroups, val)
              THEN LET r1 == list_remove(botGroups, val)
                       r2 == list_remove(r1.list, val)
                   IN /\ botGroups' = r2.list
                      /\ botLast' = Call(action, uid, uid, "-",
                                         IF r2.ok THEN "removed_group" ELSE "ValueError")
                      /\ UNCHANGED <<botPAdmins, botAdmins, botAllowed>>
              ELSE /\ botLast' = Call(action, uid, uid, "-", "none")
                   /\ UNCHANGED <<botPAdmins, botAdmins, botAllowed, botGroups>>

\* handle_file: a file sent in a chat is stored when the group is allowed or,
\* in a private chat, when the sender has access
HandleFile(uid, cid) ==
    /\ UNCHANGED notBot
    /\ LET is_grp == cid < 0
           folder == get_folder(IF is_grp THEN cid ELSE uid, is_grp)
           ok == IF is_grp THEN InList(botGroups, cid) ELSE has_access(uid)
       IN IF ok /\ botFiles[folder] < MaxStored
          THEN /\ botFiles' = [botFiles EXCEPT ![folder] = @ + 1]
               /\ botLast' = Call("handle_file", uid, cid, "-", "stored")
          ELSE /\ botLast' = Call("handle_file", uid, cid, "-", "none")
               /\ UNCHANGED botFiles
    /\ UNCHANGED <<botPAdmins, botAdmins, botAllowed, botGroups>>

\* the callback data of the file buttons, for the first file of a folder
FileCallbacks ==
    {"files", "gfiles", "f:0", "gf:0", "stat:0", "gstat:0", "full:0", "gfull:0",
     "del:0", "gdel:0"}

\* what a file callback does with the folder once it is let through
FileEffect(d) ==
    CASE d \in {"files", "gfiles"} -> "list"
      [] d \in {"f:0", "gf:0"} -> "read"
      [] d \in {"stat:0", "gstat:0", "full:0", "gfull:0"} -> "analyze"
      [] OTHER -> "remove"

\* on_cb's gate: not has_access(uid) and d not in ["gfiles", "gback", "x"]
\* and not d.startswith("g")
cb_denied(uid, cid, d) ==
    ~ has_access(uid) /\ d \notin {"gfiles", "gback", "x"} /\ ~ startswith(d, "g")

\* on_cb for a file callback pressed by uid in chat cid
OnCb(uid, cid, d) ==
    /\ UNCHANGED notBot
    /\ IF cb_denied(uid, cid, d)
       THEN /\ botLast' = Call("on_cb", uid, cid, d, "denied")
            /\ UNCHANGED botFiles
       ELSE LET is_grp == startswith(d, "g")
                folder == get_folder(IF is_grp THEN cid ELSE uid, is_grp)
            IN IF botFiles[folder] = 0
               THEN /\ botLast' = Call("on_cb", uid, cid, d,
                                       IF FileEffect(d) = "list" THEN "list_empty"
                                       ELSE "not_found")
                    /\ UNCHANGED botFiles
               ELSE /\ botLast' = Call("on_cb", uid, cid, d, FileEffect(d))
                    /\ botFiles' = IF FileEffect(d) = "remove"
                                   THEN [botFiles EXCEPT ![folder] = @ - 1]
                                   ELSE botFiles
    /\ UNCHANGED <<botPAdmins, botAdmins, botAllowed, botGroups>>

-----------------------------------------------------------------------------
(* DynamicAnalyzer.run and its result cache *)

\* _hash_file: the sha256 of the content, or '' when the file cannot be read
FileHashes == {"h1", ""}

\* scorer.total_score at the end of an analysis of the same content: it
\* depends on what the target did in the sandbox and on use_tracer
ScoreTotals == {5, 120}

\* the thresholds of the analyzer's rule engine
AnalyzerThresholds == [clean |-> 10, suspicious |-> 30]

NoRow == [file_hash |-> "-", verdict |-> "-", threat_score |-> 0, created_at |-> 0]

NoRun == [file_hash |-> "-", use_cache |-> FALSE, stored |-> FALSE, cached |-> FALSE,
          executed |-> FALSE, added_row |-> FALSE, verdict |-> "-", threat_score |-> 0,
          prev |-> NoRow]

\* the rows of one hash
rows_of(h) == {i \in 1..Len(dbRows) : dbRows[i].file_hash = h}

\* AnalysisDB.get_by_hash: SELECT ... WHERE file_hash=? ORDER BY created_at
\* DESC LIMIT 1.  Rows created in the same second compare equal, and the
\* query may return any of them
get_by_hash(h) ==
    {dbRows[i] : i \in {k \in rows_of(h) :
                          \A j \in rows_of(h) : dbRows[j].created_at <= dbRows[k].created_at}}

CacheQuiet ==
    /\ dbRows = <<>>
    /\ dbClock = 0
    /\ dbFresh = [h \in FileHashes |-> NoRow]
    /\ dbLast = NoRun

\* AnalysisDB(): the table exists and is empty
CacheInit == CacheQuiet

\* a second passes
ClockTick ==
    /\ UNCHANGED notCache
    /\ dbClock < MaxSeconds
    /\ dbClock' = dbClock + 1
    /\ UNCHANGED <<dbRows, dbFresh, dbLast>>

\* run(file_path, use_cache) on an existing file whose hash is h and that is
\* returned the cached row
RunCached(h, use_cache) ==
    /\ UNCHANGED notCache
    /\ use_cache /\ h # ""
    /\ \E row \in get_by_hash(h) :
          /\ dbLast' = [file_hash |-> h, use_cache |-> use_cache, stored |-> TRUE,
                        cached |-> TRUE, executed |-> FALSE, added_row |-> FALSE,
                        verdict |-> row.verdict, threat_score |-> row.threat_score,
                        prev |-> dbFresh[h]]
          /\ dbFresh' = [dbFresh EXCEPT ![h] = NoRow]
    /\ UNCHANGED <<dbRows, dbClock>>

\* run(file_path, use_cache) that analyzes the file: the target is executed,
\* the verdict computed, and db.save inserts a row unless it raises
RunFresh(h, use_cache, total, save_ok) ==
    /\ UNCHANGED notCache
    /\ ~ (use_cache /\ h # "" /\ get_by_hash(h) # {})
    /\ Len(dbRows) < MaxRows
    /\ LET row == [file_hash |-> h, verdict |-> get_verdict(total, AnalyzerThresholds),
                   threat_score |-> threat_score(total), created_at |-> dbClock]
       IN /\ dbRows' = IF save_ok THEN Append(dbRows, row) ELSE dbRows
          /\ dbLast' = [file_hash |-> h, use_cache |-> use_cache, stored |-> rows_of(h) # {},
                        cached |-> FALSE, executed |-> TRUE, added_row |-> save_ok,
                        verdict |-> row.verdict, threat_score |-> row.threat_score,
                        prev |-> dbFresh[h]]
          /\ dbFresh' = [dbFresh EXCEPT ![h] = IF save_ok THEN row ELSE NoRow]
    /\ UNCHANGED dbClock

-----------------------------------------------------------------------------
(* SandboxRunner.run: log server, tracer temp files, return paths *)

\* the file types _detect_type tells apart, as far as run treats them differently
SandboxFileTypes == {"python", "javascript", "shell"}

\* how subprocess.run ends: the target exits, TimeoutExpired, another exception
ExecOutcomes == {"exit", "timeout", "error"}

NoServer == [made |-> FALSE, running |-> FALSE, listening |-> FALSE, thread |-> "none",
             events |-> 0]

NoSandboxRun == [file_type |-> "-", use_tracer |-> FALSE, started |-> FALSE,
                 wrapped |-> FALSE, path |-> "-", events |-> 0]

\* the temp file the tracer of a file type writes
temp_name(ft) == IF ft = "python" THEN "traced_pid_script" ELSE "tracer_pid.js"

SocketFile == "sandbox_pid_time.sock"

\* a version of run whose except branches return without stopping the server
stops_server_on_exit_only(path) == path = "exit"

\* run calls log_server.stop() on the normal path, in the TimeoutExpired
\* branch and in the Exception branch
stops_server(path) == path \in {"exit", "timeout", "error"}

SandboxQuiet ==
    /\ sbPc = "idle"
    /\ sbRun = NoSandboxRun
    /\ sbServer = NoServer
    /\ sbTempFiles = {}
    /\ sbTmp = {}
    /\ sbRuns = 0

\* SandboxRunner(): two tracers with no temp files, nothing running
SandboxInit == SandboxQuiet

\* run up to the tracer set-up: with use_tracer and a python or javascript
\* file a LogServer is created and started (socket bound, file present,
\* accept thread running); otherwise the file is run as it is
RunStart(ft, use_tracer) ==
    /\ UNCHANGED notSandbox
    /\ sbPc \in {"idle", "returned"}
    /\ sbRuns < MaxRuns
    /\ IF use_tracer /\ ft \in {"python", "javascript"}
       THEN /\ sbServer' = [made |-> TRUE, running |-> TRUE, listening |-> TRUE,
                            thread |-> "alive", events |-> 0]
            /\ sbTmp' = sbTmp \cup {SocketFile}
            /\ sbRun' = [NoSandboxRun EXCEPT !.file_type = ft, !.use_tracer = use_tracer,
                                             !.started = TRUE]
            /\ sbPc' = "wrap"
       ELSE /\ sbServer' = NoServer
            /\ sbRun' = [NoSandboxRun EXCEPT !.file_type = ft, !.use_tracer = use_tracer]
            /\ sbPc' = "exec"
            /\ UNCHANGED sbTmp
    /\ UNCHANGED <<sbTempFiles, sbRuns>>

\* wrap_script: the traced copy is written and recorded in _temp_files, or
\* the script cannot be read and the plain command is used
WrapScript(readable) ==
    /\ UNCHANGED notSandbox
    /\ sbPc = "wrap"
    /\ IF readable
       THEN /\ sbTmp' = sbTmp \cup {temp_name(sbRun.file_type)}
            /\ sbTempFiles' = sbTempFiles \cup {temp_name(sbRun.file_type)}
            /\ sbRun' = [sbRun EXCEPT !.wrapped = TRUE]
       ELSE UNCHANGED <<sbTmp, sbTempFiles, sbRun>>
    /\ sbPc' = "exec"
    /\ UNCHANGED <<sbServer, sbRuns>>

\* the target runs under subprocess.run and its tracer sends an event that
\* the log server appends
TracedEvent ==
    /\ UNCHANGED notSandbox
    /\ sbPc = "exec"
    /\ sbServer.running /\ sbServer.events < MaxTraced
    /\ sbServer' = [sbServer EXCEPT !.events = @ + 1]
    /\ UNCHANGED <<sbPc, sbRun, sbTempFiles, sbTmp, sbRuns>>

\* subprocess.run returns or raises
ExecEnds(outcome) ==
    /\ UNCHANGED notSandbox
    /\ sbPc = "exec"
    /\ sbRun' = [sbRun EXCEPT !.path = outcome]
    /\ sbPc' = "stop"
    /\ UNCHANGED <<sbServer, sbTempFiles, sbTmp, sbRuns>>

\* the branch taken reads the events (not in the Exception branch) and calls
\* LogServer.stop when a server was started: flag cleared, listening socket
\* closed, accept thread joined, socket file unlinked
StopLogServer ==
    /\ UNCHANGED notSandbox
    /\ sbPc = "stop"
    /\ sbRun' = [sbRun EXCEPT !.events = IF sbRun.path = "error" THEN 0 ELSE sbServer.events]
    /\ IF sbServer.made /\ stops_server(sbRun.path)
       THEN /\ sbServer' = [sbServer EXCEPT !.running = FALSE, !.listening = FALSE,
                                            !.thread = "joined"]
            /\ sbTmp' = sbTmp \ {SocketFile}
       ELSE UNCHANGED <<sbServer, sbTmp>>
    /\ sbPc' = "cleanup"
    /\ UNCHANGED <<sbTempFiles, sbRuns>>

\* py_tracer.cleanup() and js_tracer.cleanup(): every recorded temp file is
\* unlinked and the lists are emptied
TracerCleanup ==
    /\ UNCHANGED notSandbox
    /\ sbPc = "cleanup"
    /\ sbTmp' = sbTmp \ sbTempFiles
    /\ sbTempFiles' = {}
    /\ sbPc' = "return"
    /\ UNCHANGED <<sbRun, sbServer, sbRuns>>

\* run returns its dict
RunReturn ==
    /\ UNCHANGED notSandbox
    /\ sbPc = "return"
    /\ sbPc' = "returned"
    /\ sbRuns' = sbRuns + 1
    /\ UNCHANGED <<sbRun, sbServer, sbTempFiles, sbTmp>>

-----------------------------------------------------------------------------
(* Specifications *)

NextLauncher ==
    \/ \E n \in VMNames : LaunchRejected(n)
    \/ \E n \in VMNames : LaunchSpawn(n)
    \/ LaunchPoll
    \/ \E c \in 1..MaxChildren : ChildCreateSocket(c)
    \/ \E c \in 1..MaxChildren : ChildExit(c)
    \/ \E n \in VMNames, force \in BOOLEAN : Stop(n, force)
    \/ StopWait
    \/ StopAll

InitLauncher == LauncherInit /\ AgentQuiet /\ AnalyzeQuiet /\ ScorerQuiet /\ MacQuiet /\ SmbiosQuiet /\ OutputQuiet /\ QmpQuiet /\ PipeQuiet /\ BotQuiet /\ CacheQuiet /\ SandboxQuiet

SpecLauncher == InitLauncher /\ [][NextLauncher]_vars

\* the launcher with is_running called between its other operations
NextRunning ==
    \/ NextLauncher
    \/ \E n \in VMNames : IsRunning(n)

SpecRunning == InitLauncher /\ [][NextRunning]_vars

InitAgent == AgentInit /\ LauncherInit /\ AnalyzeQuiet /\ ScorerQuiet /\ MacQuiet /\ SmbiosQuiet /\ OutputQuiet /\ QmpQuiet /\ PipeQuiet /\ BotQuiet /\ CacheQuiet /\ SandboxQuiet

NextAgent ==
    \/ \E c \in Clients : ClientConnect(c)
    \/ \E c \in Clients, line \in AgentLines : ClientSend(c, line)
    \/ \E c \in Clients : HandlerTakeLine(c)
    \/ \E c \in Clients : HandlerRespond(c)
    \/ \E c \in Clients : ClientClose(c)

SpecAgent == InitAgent /\ [][NextAgent]_vars

InitAgentFiles ==
    /\ LauncherInit
    /\ SandboxQuiet
    /\ CacheQuiet
    /\ BotQuiet
    /\ PipeQuiet
    /\ QmpQuiet
    /\ OutputQuiet
    /\ SmbiosQuiet
    /\ MacQuiet
    /\ AnalyzeQuiet
    /\ ScorerQuiet
    /\ agentMode = "virtio"
    /\ agentRoot \in BOOLEAN
    /\ conn = [c \in Clients |-> NewConn]
    /\ fs = [p \in Paths |-> NoFile]
    /\ written = [p \in Paths |-> NotWritten]
    /\ lastReq = NoLine
    /\ lastResp = NoResp

NextAgentFiles == \E line \in FileLines : FileRequest(line)

SpecAgentFiles == InitAgentFiles /\ [][NextAgentFiles]_vars

InitAnalyze == AnalyzeInit /\ LauncherInit /\ AgentQuiet /\ ScorerQuiet /\ MacQuiet /\ SmbiosQuiet /\ OutputQuiet /\ QmpQuiet /\ PipeQuiet /\ BotQuiet /\ CacheQuiet /\ SandboxQuiet

NextAnalyze ==
    \/ \E c \in Collectors : MainStart(c)
    \/ MainSpawn
    \/ TargetExit
    \/ MainWait
    \/ \E c \in Collectors : MainStop(c)
    \/ MainDrain
    \/ MainReport
    \/ \E c \in Collectors : CollectorSpawnTool(c)
    \/ \E c \in Collectors : CollectorLine(c)
    \/ \E c \in Collectors : ToolExit(c)
    \/ \E c \in Collectors : CollectorEOF(c)

SpecAnalyze == InitAnalyze /\ [][NextAnalyze]_vars

InitScorer == ScorerInit /\ LauncherInit /\ AgentQuiet /\ AnalyzeQuiet /\ MacQuiet /\ SmbiosQuiet /\ OutputQuiet /\ QmpQuiet /\ PipeQuiet /\ BotQuiet /\ CacheQuiet /\ SandboxQuiet

NextScorer ==
    \/ \E e \in ScoredEvents : add_event(e)
    \/ RunResult

SpecScorer == InitScorer /\ [][NextScorer]_vars

InitMac == MacInit /\ LauncherInit /\ AgentQuiet /\ AnalyzeQuiet /\ ScorerQuiet /\ SmbiosQuiet /\ OutputQuiet /\ QmpQuiet /\ PipeQuiet /\ BotQuiet /\ CacheQuiet /\ SandboxQuiet

NextMac == generate_mac_address

SpecMac == InitMac /\ [][NextMac]_vars

InitSmbios ==
    SmbiosQuiet /\ LauncherInit /\ AgentQuiet /\ AnalyzeQuiet /\ ScorerQuiet /\ MacQuiet
                /\ OutputQuiet /\ QmpQuiet /\ PipeQuiet /\ BotQuiet /\ CacheQuiet /\ SandboxQuiet

NextSmbios ==
    \/ \E n \in ProfileNames : NewSpoofer(n)
    \/ \E i \in 1..MaxSpoofers : GetQemuArgs(i)

SpecSmbios == InitSmbios /\ [][NextSmbios]_vars

InitOutput ==
    OutputInit /\ LauncherInit /\ AgentQuiet /\ AnalyzeQuiet /\ ScorerQuiet /\ MacQuiet
               /\ SmbiosQuiet /\ QmpQuiet /\ PipeQuiet /\ BotQuiet /\ CacheQuiet /\ SandboxQuiet

NextOutput == BuildOutputFields

SpecOutput == InitOutput /\ [][NextOutput]_vars

InitQmp ==
    QmpQuiet /\ LauncherInit /\ AgentQuiet /\ AnalyzeQuiet /\ ScorerQuiet /\ MacQuiet
             /\ SmbiosQuiet /\ OutputQuiet /\ PipeQuiet /\ BotQuiet /\ CacheQuiet /\ SandboxQuiet

\* the steps of the thread that called stop
StopThread == QmpStep \/ QmpFinally \/ StopWait10 \/ StopKill \/ StopReap

NextQmp ==
    \/ StopGraceful
    \/ QmpStep
    \/ QmpFinally
    \/ StopWait10
    \/ StopKill
    \/ StopReap
    \/ QemuAccept
    \/ QemuHandle
    \/ QemuEvent
    \/ QemuExit
    \/ GuestTask

SpecQmp == InitQmp /\ [][NextQmp]_vars

\* the calling thread is scheduled: a blocking call of stop returns or raises
\* within its deadline.  QEMU and the guest are under no obligation.
SpecQmpLive == SpecQmp /\ WF_vars(StopThread)

InitPipe ==
    PipeInit /\ LauncherInit /\ AgentQuiet /\ AnalyzeQuiet /\ ScorerQuiet /\ MacQuiet
             /\ SmbiosQuiet /\ OutputQuiet /\ QmpQuiet /\ BotQuiet /\ CacheQuiet /\ SandboxQuiet

NextPipe ==
    \/ PipeEmit
    \/ PipeToolExit
    \/ ReaderNext
    \/ ReaderParse
    \/ ReaderAppendLocked
    \/ ReaderEOF
    \/ OwnerStop
    \/ OwnerGetEvents
    \/ OwnerCopyLocked

SpecPipe == InitPipe /\ [][NextPipe]_vars

InitBot ==
    BotInit /\ LauncherInit /\ AgentQuiet /\ AnalyzeQuiet /\ ScorerQuiet /\ MacQuiet
            /\ SmbiosQuiet /\ OutputQuiet /\ QmpQuiet /\ PipeQuiet /\ CacheQuiet /\ SandboxQuiet

\* the admin actions on users
NextBot ==
    \E uid \in Uids, val \in Uids, action \in {"add_admin", "add_padmin", "block"} :
        AdminAction(uid, action, val)

SpecBot == InitBot /\ [][NextBot]_vars

\* the bot started from a users file with one super-admin: groups are allowed
\* and removed, files are sent, file buttons are pressed
InitBotFiles ==
    /\ InitBot
    /\ botPAdmins = <<1>>
    /\ botAdmins = <<>>

NextBotFiles ==
    \/ \E uid \in Uids, val \in GroupIds, action \in {"add_grp", "del_grp"} :
          AdminAction(uid, action, val)
    \/ \E uid \in Uids, cid \in Uids \cup GroupIds :
          (cid < 0 \/ cid = uid) /\ HandleFile(uid, cid)
    \/ \E uid \in Uids, cid \in Uids \cup GroupIds, d \in FileCallbacks :
          (cid < 0 \/ cid = uid) /\ OnCb(uid, cid, d)

SpecBotFiles == InitBotFiles /\ [][NextBotFiles]_vars

InitCache ==
    CacheInit /\ LauncherInit /\ AgentQuiet /\ AnalyzeQuiet /\ ScorerQuiet /\ MacQuiet
              /\ SmbiosQuiet /\ OutputQuiet /\ QmpQuiet /\ PipeQuiet /\ BotQuiet /\ SandboxQuiet

NextCache ==
    \/ ClockTick
    \/ \E h \in FileHashes, use_cache \in BOOLEAN : RunCached(h, use_cache)
    \/ \E h \in FileHashes, use_cache \in BOOLEAN, total \in ScoreTotals, save_ok \in BOOLEAN :
          RunFresh(h, use_cache, total, save_ok)

SpecCache == InitCache /\ [][NextCache]_vars

InitSandbox ==
    SandboxInit /\ LauncherInit /\ AgentQuiet /\ AnalyzeQuiet /\ ScorerQuiet /\ MacQuiet
                /\ SmbiosQuiet /\ OutputQuiet /\ QmpQuiet /\ PipeQuiet /\ BotQuiet /\ CacheQuiet

NextSandbox ==
    \/ \E ft \in SandboxFileTypes, use_tracer \in BOOLEAN : RunStart(ft, use_tracer)
    \/ \E readable \in BOOLEAN : WrapScript(readable)
    \/ TracedEvent
    \/ \E outcome \in ExecOutcomes : ExecEnds(outcome)
    \/ StopLogServer
    \/ TracerCleanup
    \/ RunReturn

SpecSandbox == InitSandbox /\ [][NextSandbox]_vars

-----------------------------------------------------------------------------
(* Claims about the VM supervisor, checked under SpecLauncher *)

\* C1: when stop(name) of a registered VM returns, with force or without,
\* none of the three socket files of that VM (monitor, serial, agent) is on disk.
C1_StopRemovesSockets ==
    (lastOp.op = "stop" /\ lastOp.registered)
        => \A k \in {"monitor", "serial", "agent"} : <<lastOp.name, k>> \notin files

\* a graceful stop of a VM whose child had bound all three sockets has returned
C1_Witness ==
    /\ lastOp.op = "stop"
    /\ lastOp.registered
    /\ ~ lastOp.force
    /\ children[lastOp.child].created = 3

\* C2: once stop_all() returns, no QEMU child this launcher spawned is alive,
\* whatever launches and stops came before.
C2_NoChildSurvivesStopAll ==
    lastOp.op = "stop_all" => \A c \in 1..Len(children) : ~ children[c].alive

\* C3: when launch fails with the timeout error and the monitor socket is not
\* there, the child is dead, the map does not hold it, and none of the three
\* socket files of that VM is on disk.
C3_TimeoutLeavesNothing ==
    (/\ lastOp.op = "launch"
     /\ lastOp.result = "TimeoutError"
     /\ <<lastOp.name, "monitor">> \notin files)
        => /\ ~ children[lastOp.child].alive
           /\ \A n \in DOMAIN processes : processes[n] # lastOp.child
           /\ \A k \in {"monitor", "serial", "agent"} : <<lastOp.name, k>> \notin files

\* C4: stop(name) for a name that is not registered (stopped before, or never
\* launched) raises nothing and changes neither the process map, nor the
\* socket files, nor any child.
C4_StopIdempotent ==
    [][(/\ lpc.pc = "idle"
        /\ lastOp'.op = "stop"
        /\ lastOp'.name \notin DOMAIN processes)
           => /\ lastOp'.result = "ok"
              /\ processes' = processes
              /\ files' = files
              /\ children' = children]_vars

\* stop has returned for a name that was launched and stopped before, while
\* another VM is registered and socket files are on disk
C4_Witness ==
    /\ lastOp.op = "stop"
    /\ ~ lastOp.registered
    /\ \E c \in 1..Len(children) : children[c].name = lastOp.name
    /\ processes # [x \in {} |-> 0]
    /\ files # {}

\* launch(n) has just returned a handle
LaunchedOk(n) == lastOp.op = "launch" /\ lastOp.name = n /\ lastOp.result = "ok"

\* stop(n) or stop_all() has just returned
StoppedNow(n) ==
    \/ lastOp.op = "stop" /\ lastOp.name = n /\ lastOp.result = "ok"
    \/ lastOp.op = "stop_all"

\* C25: is_running(name) answers True exactly for a name that a successful
\* launch registered, that no stop has removed since, and whose child has
\* not exited; after the child of a registered name has exited the answer
\* is False until a launch of that name succeeds
C25_IsRunning ==
    /\ [](lastOp.op = "is_running" =>
             (lastOp.result = "True" <=>
                 (lastOp.registered /\ children[lastOp.child].alive)))
    /\ [][\A n \in VMNames :
             /\ (n \notin DOMAIN processes /\ n \in DOMAIN processes') => LaunchedOk(n)'
             /\ (n \in DOMAIN processes /\ n \notin DOMAIN processes') => StoppedNow(n)'
             /\ LaunchedOk(n)' =>
                   (n \in DOMAIN processes' /\ processes'[n] = lastOp'.child)
             /\ (lastOp'.op = "stop" /\ lastOp'.name = n /\ lastOp'.result = "ok")
                   => n \notin DOMAIN processes'
             /\ (~ is_running(n) /\ is_running(n)') => LaunchedOk(n)']_vars

\* C25 witness: the child of a registered VM has exited by itself and
\* is_running has answered False for its name
C25_Witness ==
    /\ lastOp.op = "is_running"
    /\ lastOp.result = "False"
    /\ lastOp.registered
    /\ lastOp.name \in DOMAIN processes
    /\ ~ children[lastOp.child].alive

-----------------------------------------------------------------------------
(* Claims about the in-guest agent, checked under SpecAgent and SpecAgentFiles *)

\* C5: the agent handles one request at a time: in neither transport mode are
\* two handle_command invocations in progress at once.
C5_OneRequestAtATime ==
    Cardinality({c \in Clients : conn[c].pc = "handling"}) <= 1

\* C6: for every request line a handler has taken off a connection it has
\* written exactly one response line, with a boolean success and, when
\* success is false, an error message, in the order of the requests.
C6_OneResponsePerLine ==
    \A c \in Clients :
        conn[c].pc \in {"recv", "closed"}
            => /\ Len(conn[c].out) = conn[c].seen
               /\ \A i \in 1..Len(conn[c].out) :
                     /\ conn[c].out[i].req = i
                     /\ conn[c].out[i].success \in BOOLEAN
                     /\ (~ conn[c].out[i].success => conn[c].out[i].error # "none")

-----------------------------------------------------------------------------
(* Claims about analyze and its collectors, checked under SpecAnalyze *)

\* the target process exists: Popen has returned it
Spawned == target \in {"running", "exited", "killed"}

IsPrefix(a, b) == Len(a) <= Len(b) /\ SubSeq(b, 1, Len(a)) = a

\* in what analyze has done so far, a comes before b
Before(a, b) ==
    \E i, j \in 1..Len(atrace) : i < j /\ atrace[i] = a /\ atrace[j] = b

C9_ToolFailureIsSilent ==
    (report.built /\ target = "exited") =>
        /\ report.success
        /\ report.error = "none"
        /\ \A c \in Collectors : ~ coll[c].tool_ok => report.events[c] = <<>>

\* C9 witness: the result of a run whose target exited in time, where strace
\* and tcpdump could not be started and inotifywait delivered events
C9_Witness ==
    /\ report.built
    /\ target = "exited"
    /\ ~ coll["sys"].tool_ok /\ coll["sys"].thread = "done"
    /\ ~ coll["net"].tool_ok /\ coll["net"].thread = "done"
    /\ report.events["file"] # <<>>
    /\ report.success

\* C10 as stated: once the target is spawned, all three collectors have been
\* started
C10_AllStartedBeforeSpawn ==
    Spawned => \A c \in Collectors : coll[c].started

\* C10 as the code has it: once the target is spawned the file and the network
\* collector have been started, and the syscall collector is started only
\* after the target is spawned
C10_FileNetBeforeSpawnSysAfter ==
    /\ Spawned => (coll["file"].started /\ coll["net"].started)
    /\ coll["sys"].started => Spawned

\* C10 witness: the target runs and all three collectors have been started
C10_Witness ==
    /\ target = "running"
    /\ \A c \in Collectors : coll[c].started
    /\ atrace = <<"start_file", "start_net", "spawn", "start_sys">>

\* stop() of the collector has returned
StopReturned(c) == apc > IndexOf(StopStep[c])

\* C22: once a collector's stop() has returned, its running flag is cleared
\* and its tool process is not running, then and at any later time
C22_StopTerminatesTool ==
    \A c \in Collectors :
        StopReturned(c) => (~ coll[c].running /\ coll[c].proc # "alive")

-----------------------------------------------------------------------------
(* Claims about the scorer, checked under SpecScorer *)

RECURSIVE SumScores(_)
\* the sum of the scores of a sequence of events
SumScores(evs) == IF evs = <<>> THEN 0 ELSE Head(evs).score + SumScores(Tail(evs))

\* the verdict for a total score with the thresholds the configuration gives,
\* 20 (clean) and 50 (suspicious) where it gives none
VerdictWanted(total, thr) ==
    LET clean == IF "clean" \in DOMAIN thr THEN thr["clean"] ELSE 20
        suspicious == IF "suspicious" \in DOMAIN thr THEN thr["suspicious"] ELSE 50
    IN IF total <= clean THEN "CLEAN"
       ELSE IF total <= suspicious THEN "SUSPICIOUS"
       ELSE "MALICIOUS"

\* C12: the verdict run returns is CLEAN up to the clean threshold, SUSPICIOUS
\* above it up to the suspicious threshold and MALICIOUS above that, the
\* thresholds being the configured ones, 20 and 50 where not configured
C12_VerdictThresholds ==
    verdictOut.built => verdictOut.verdict = VerdictWanted(total_score, thresholds)

\* C13: the threat_score run returns never exceeds 100 and equals the sum of
\* the added events' scores when that sum is at most 100
C13_ScoreCapped ==
    verdictOut.built =>
        /\ verdictOut.threat_score <= 100
        /\ SumScores(scEvents) <= 100 => verdictOut.threat_score = SumScores(scEvents)

\* C13 witness: a result whose added scores sum to more than 100 and which
\* reports 100
C13_Witness ==
    /\ verdictOut.built
    /\ SumScores(scEvents) > 100
    /\ verdictOut.threat_score = 100

RECURSIVE FirstSeen(_, _)
\* the tags of the events after the first k, without those in seen, in order
FirstSeen(evs, seen) ==
    IF evs = <<>> THEN <<>>
    ELSE IF Head(evs).mitre = "None" \/ Head(evs).mitre \in seen
         THEN FirstSeen(Tail(evs), seen)
         ELSE <<Head(evs).mitre>> \o FirstSeen(Tail(evs), seen \cup {Head(evs).mitre})

\* C14: the technique tags run returns are the tags of the events, each once,
\* in the order of their first occurrence
C14_TagsFirstSeenOrder ==
    verdictOut.built => verdictOut.mitre_techniques = FirstSeen(scEvents, {})

\* the spec's tables: indicator -> the table row of the implementation that
\* carries it, with the score and the tag the spec gives
SpecTables ==
    {[source |-> "elf_import", key |-> "ptrace", score |-> 20, mitre |-> "T1055.008"],
     [source |-> "elf_import", key |-> "execve", score |-> 10, mitre |-> "T1059"],
     [source |-> "elf_import", key |-> "connect", score |-> 10, mitre |-> "T1071"],
     [source |-> "elf_import", key |-> "bind", score |-> 10, mitre |-> "T1071"],
     [source |-> "elf_string", key |-> "/etc/shadow", score |-> 20, mitre |-> "T1003"],
     [source |-> "elf_string", key |-> "/etc/passwd", score |-> 20, mitre |-> "T1003"],
     [source |-> "elf_string", key |-> "\\.ssh/", score |-> 15, mitre |-> "T1552.004"],
     [source |-> "elf_string", key |-> "api\\.telegram\\.org", score |-> 20, mitre |-> "T1102"],
     [source |-> "network", key |-> "api.telegram.org", score |-> 20, mitre |-> "T1102"]}

\* C15: every event made from an indicator of the spec's tables carries the
\* score and the tag the spec's tables give
C15_TablesAsSpecified ==
    \A i \in 1..Len(scEvents) :
        \A row \in SpecTables :
            (scEvents[i].source = row.source /\ scEvents[i].key = row.key)
                => scEvents[i] = row

-----------------------------------------------------------------------------
(* Claims about the anti-VM generators *)

\* the OUIs of virtual NICs: QEMU, VMware (two), VirtualBox, Xen, Hyper-V
VmOuis == {"52:54:00", "00:0C:29", "00:50:56", "08:00:27", "00:16:3E", "00:15:5D"}

\* C16: a MAC that generate_mac_address made from the OUI table does not
\* start, whatever the case of its letters, with the OUI of a virtual NIC
C16_MacNotVmOui ==
    (macOut # "" /\ hwConfig.custom_mac = "None") =>
        \A o \in VmOuis : ~ startswith(upper(macOut), upper(o))

\* the words that give a virtual machine away
VmIndicators == {"qemu", "virtualbox", "vmware", "kvm", "xen", "hyper-v"}

C30_SharedTableUnchanged ==
    smSpoofers # <<>> => smProfiles = SMBIOS_PROFILES

-----------------------------------------------------------------------------
(* Claims about the output fields of the analysis result *)

RECURSIVE FirstBytes(_, _)
\* the first k bytes of a byte string
FirstBytes(runs, k) ==
    IF runs = <<>> \/ k < Width(Head(runs).kind) THEN <<>>
    ELSE IF Head(runs).n * Width(Head(runs).kind) <= k
         THEN <<Head(runs)>>
                  \o FirstBytes(Tail(runs), k - Head(runs).n * Width(Head(runs).kind))
         ELSE <<Run(Head(runs).kind, k \div Width(Head(runs).kind))>>

\* the field the claim asks for: the output itself up to 10 KiB, its first
\* 10 KiB beyond
FieldWanted(runs) ==
    IF ByteLen(runs) <= 10 * 1024 THEN runs ELSE FirstBytes(runs, 10 * 1024)

\* C18: the stdout and stderr fields are the captured output when it has at
\* most 10240 bytes and its first 10240 bytes otherwise
C18_OutputCutAtTenKiB ==
    outFields.built =>
        /\ outFields.stdout = FieldWanted(captured.stdout)
        /\ outFields.stderr = FieldWanted(captured.stderr)

-----------------------------------------------------------------------------
(* Claims about the graceful stop and the QMP session *)

\* the positions of the log at which the client sent msg
SendsOf(msg) == {i \in 1..Len(qlog) : qlog[i] = LogEntry("send", <<msg>>)}

\* _send_qmp_command has returned or raised
QmpCallOver == qstop.pc \in {"wait10", "kill", "raised", "reap", "done"}

\* C11: on one guest instance a task never starts after another task has
\* completed unless the snapshot was restored in between
C11_RestoreBetweenTasks == qemu.tasks <= 1

\* C19: on a QMP connection the client reads the greeting, sends
\* qmp_capabilities once and reads its reply before it sends the command, and
\* the socket is closed whenever _send_qmp_command has been left
C19_NegotiationBeforeCommand ==
    /\ \A c \in QmpCommands : \A i \in SendsOf(c) :
          /\ i = 5
          /\ qlog[1] = LogEntry("connect", <<>>)
          /\ qlog[2] = LogEntry("recv", <<"greeting">>)
          /\ qlog[3] = LogEntry("send", <<"qmp_capabilities">>)
          /\ qlog[4].op = "recv"
          /\ qlog[4].data # <<>>
          /\ Head(qlog[4].data) = "return_capabilities"
    /\ Cardinality(SendsOf("qmp_capabilities")) <= 1
    /\ QmpCallOver => qsock = "closed"

\* C19 witness: the command went out on the connection and the call is over
C19_Witness ==
    /\ \E c \in QmpCommands : SendsOf(c) # {}
    /\ QmpCallOver
    /\ qsock = "closed"

\* C20: a graceful stop of a registered VM, once called, comes to its end;
\* at its end the child has exited and the name is no longer registered; and
\* the child was killed if the QMP exchange raised or the 10 s wait ran out
C20_GracefulStopTerminates ==
    /\ [](qstop.pc = "done" => ~ qemu.alive /\ ~ qreg)
    /\ [](qstop.pc = "done" /\ qstop.exc # "none" => qstop.killed)
    /\ [](qstop.pc # "raised")
    /\ ((qstop.pc # "idle") ~> (qstop.pc = "done"))

\* C20 witness: the powerdown was acknowledged, the child outlived the 10 s
\* wait and was killed, and stop has returned
C20_Witness ==
    /\ qstop.pc = "done"
    /\ qstop.exc = "TimeoutExpired"
    /\ qstop.killed
    /\ qstop.resp = <<"return_command">>
    /\ ~ qreg

\* the number of QMP sessions the stop has opened
QmpAttempts == Cardinality({i \in 1..Len(qlog) : qlog[i].op = "connect"})

\* C21: a QMP command that timed out is tried a second time before the guest
\* is killed: a kill that follows a timeout has two sessions behind it
C21_TimeoutRetriedOnce ==
    (qstop.killed /\ qstop.exc = "timeout") => QmpAttempts = 2

-----------------------------------------------------------------------------
(* Claims about a collector's event list, checked under SpecPipe *)

\* the events of the list come from lines the tool wrote in this order
InEmissionOrder(list) ==
    \A i, j \in 1..Len(list) : i < j => list[i].n < list[j].n

\* C23: a collector's event list only grows at its end, and its events, in
\* the list and in every list get_events returned, are in the order in which
\* the tool wrote the lines they were made from
C23_EventsAppendOnlyInOrder ==
    /\ [][IsPrefix(pevents, pevents')]_vars
    /\ [](InEmissionOrder(pevents))
    /\ [](\A k \in 1..Len(psnaps) :
             InEmissionOrder(psnaps[k]) /\ IsPrefix(psnaps[k], pevents))

\* C23 witness: get_events returned the events of the first and the third
\* line, the second line having been dropped by the parser
C23_Witness ==
    /\ psnaps # <<>>
    /\ psnaps[Len(psnaps)] = <<[n |-> 1], [n |-> 3]>>

\* C24: in the agent's collectors the list is appended to only by a reader
\* that holds the collector's mutex and copied only by a caller that holds it
C24_ListUsedUnderMutex ==
    [][pstate.kind \in Collectors =>
          /\ pevents' # pevents => plock = "reader"
          /\ psnaps' # psnaps => plock = "owner"]_vars

-----------------------------------------------------------------------------
(* Claims about the bot, checked under SpecBot and SpecBotFiles *)

\* C26: a user has access exactly when the user is in the admin list or in
\* the super-admin list
C26_AccessIffListed ==
    \A uid \in Uids : has_access(uid) <=> has_access_by_role(uid)

\* C27: a file callback that lists, reads, analyzes or removes a stored file
\* is carried out only when the calling user has access or the chat is an
\* allowed group: no callback of a user without access in a chat that is not
\* an allowed group touches a file
C27_FileCallbacksGated ==
    (botLast.op = "on_cb" /\ botLast.effect \in {"list", "read", "analyze", "remove"})
        => (botLast.access \/ botLast.group_ok)

-----------------------------------------------------------------------------
(* Claims about the result cache, checked under SpecCache *)

\* C28: a run with use_cache=True on a readable file for whose hash a result
\* is stored returns the stored result marked cached, executes nothing and
\* adds no row; and the run that follows a non-cached, saved run on the same
\* content returns that run's verdict and threat_score
C28_CacheReturnsLastResult ==
    (dbLast.use_cache /\ dbLast.file_hash # "") =>
        /\ dbLast.stored => (dbLast.cached /\ ~ dbLast.executed /\ ~ dbLast.added_row)
        /\ dbLast.prev # NoRow =>
              /\ dbLast.verdict = dbLast.prev.verdict
              /\ dbLast.threat_score = dbLast.prev.threat_score

-----------------------------------------------------------------------------
(* Claims about SandboxRunner.run, checked under SpecSandbox *)

=============================================================================
